---- MODULE Spec2Model ----
(***************************************************************************)
(* Alarm clock for the Raspberry Pi Pico (src/alarmclock.cpp).             *)
(*                                                                         *)
(* Core 1 runs core1_main: it polls four buttons, drives the mode state    *)
(* machine, edits the clock and alarm drafts and arms the RTC alarm.  The  *)
(* RTC compare-match interrupt runs alarm_callback on core 1, on top of    *)
(* core1_main.  The state below is the globals of the source, the RTC      *)
(* peripheral, the four button inputs and the position of core1_main and   *)
(* of alarm_callback in their code.  Program positions are named after the *)
(* source line that executes next ("l221" is line 221).                    *)
(***************************************************************************)
EXTENDS Integers, Sequences, FiniteSets, TLC

(* ------------------------------------------------------------------ *)
(* Program constants (#define lines of the source)                     *)
(* ------------------------------------------------------------------ *)
MENU              == 0
CLOCK             == 1
SET_CLOCK_YEAR    == 2
SET_CLOCK_MONTH   == 3
SET_CLOCK_DAY     == 4
SET_CLOCK_WEEKDAY == 5
SET_CLOCK_HOUR    == 6
SET_CLOCK_MIN     == 7
SET_CLOCK_SEC     == 8
SET_CLOCK_FINAL   == 9
ALARM_MENU        == 10
DISABLE_ALARM     == 11
SET_ALARM_HOUR    == 12
SET_ALARM_MIN     == 13
SET_ALARM_SEC     == 14
SET_ALARM_FINAL   == 15
SLEEP_MODE        == 16

WAIT_DURATION_MS              == 20
BUZZER_FREQ                   == 466
MAX_ALARM_TIME_SEC            == 60
SLEEP_MODE_ACTIVATION_TIME_MS == 10000

\* enum Months {JAN=1, FEB, ...}
JAN == 1
FEB == 2
MAR == 3
APR == 4
MAY == 5
JUN == 6
JUL == 7
AUG == 8
SEP == 9
OCT == 10
NOV == 11
DEC == 12

\* The four inputs; the pin numbers play no part in the logic.
LEFT_BUTTON   == "LEFT_BUTTON"
RIGHT_BUTTON  == "RIGHT_BUTTON"
BACK_BUTTON   == "BACK_BUTTON"
SELECT_BUTTON == "SELECT_BUTTON"
Buttons == {LEFT_BUTTON, RIGHT_BUTTON, BACK_BUTTON, SELECT_BUTTON}

(* ------------------------------------------------------------------ *)
(* Bounds of the model                                                 *)
(* ------------------------------------------------------------------ *)
\* Left/Right presses the user makes while a wizard field is shown.
MaxEdits == 2

\* Left presses the user makes on one field while cycling it with Right.
MaxLefts == 1

(* ------------------------------------------------------------------ *)
(* State                                                               *)
(* ------------------------------------------------------------------ *)
VARIABLES
    \* globals of the source
    datetime_set, alarm_enabled, alarm_fired, current_mode, menu_index,
    alarm_count, sleep_mode_count, alarm_settime, set_date, alarmtime,
    \* the RTC peripheral: its calendar, the installed alarm, match enabled
    rtc_time, rtc_alarm, rtc_alarm_on,
    \* the button inputs (gpio_get)
    button,
    \* core1_main: position; a button's name while it waits, in
    \* while (gpio_get(X)); for that button to be released
    pc,
    \* alarm_callback: position ("idle": not running), time_us_64() - start
    cb, now,
    \* the user: Left and Right presses made so far while a wizard field is shown
    lefts, rights,
    \* main on core 0: position in its loop, the register alarm_count++
    \* loads into, the global date it reads the RTC into, and what the
    \* compiler made of the wait loop of line 533
    dpc, acc, date, build

globals == <<datetime_set, alarm_enabled, alarm_fired, current_mode, menu_index,
             alarm_count, sleep_mode_count, alarm_settime, set_date, alarmtime>>
rtc     == <<rtc_time, rtc_alarm, rtc_alarm_on>>
user    == <<lefts, rights>>
core0   == <<dpc, acc, date, build>>
vars    == <<globals, rtc, button, pc, cb, now, user, core0>>

\* datetime_t
DT(y, mo, d, w, h, mi, s) ==
    [year |-> y, month |-> mo, day |-> d, dotw |-> w, hour |-> h, min |-> mi, sec |-> s]

\* a zero-initialised datetime_t (alarm_settime, set_date at start-up)
ZeroDatetime == DT(0, 0, 0, 0, 0, 0, 0)

\* datetime_t alarmtime = { -1, -1, -1, -1, 8, 0, 0 }
InitialAlarmtime == DT(-1, -1, -1, -1, 8, 0, 0)

\* datetime_t date = { 2022, 07, 01, 5, 0, 0, 0 }, loaded into the RTC by main
InitialDate == DT(2022, 7, 1, 5, 0, 0, 0)

\* None of the globals is volatile or atomic, and tight_loop_contents() is
\* empty, so the loop of line 533,
\*   while (current_mode == SLEEP_MODE && !alarm_fired) { tight_loop_contents(); }
\* reads in every iteration ("reload", an unoptimised build), or once before
\* an endless loop ("hoist": the loads moved out of the loop), or not at all
\* ("elide": a loop without side effects may be assumed to end, g++ -O2
\* from version 10 deletes it).
Builds == {"reload", "hoist", "elide"}

\* main at the top of its loop (line 480), before it has read the RTC into
\* date
Core0Idle ==
    /\ dpc = "l480"
    /\ acc = 0
    /\ date = InitialDate
    /\ build = "reload"

ClockFieldModes == SET_CLOCK_YEAR..SET_CLOCK_SEC
AlarmFieldModes == SET_ALARM_HOUR..SET_ALARM_SEC
FinalModes      == {SET_ALARM_FINAL, SET_CLOCK_FINAL, DISABLE_ALARM}

(* ------------------------------------------------------------------ *)
(* Calendar utility                                                    *)
(* ------------------------------------------------------------------ *)
\* number_of_days without the century rule (year%100 tested nowhere)
number_of_days_no_century(year, month) ==
    IF month = JAN \/ month = MAR \/ month = MAY \/ month = JUL
       \/ month = AUG \/ month = OCT \/ month = DEC
    THEN 31
    ELSE IF month = APR \/ month = JUN \/ month = SEP \/ month = NOV
    THEN 30
    ELSE IF year % 4 = 0 THEN 29
    ELSE 28

number_of_days(year, month) ==
    IF month = JAN \/ month = MAR \/ month = MAY \/ month = JUL
       \/ month = AUG \/ month = OCT \/ month = DEC
    THEN 31
    ELSE IF month = APR \/ month = JUN \/ month = SEP \/ month = NOV
    THEN 30
    ELSE IF year % 400 = 0 THEN 29
    ELSE IF year % 100 = 0 THEN 28
    ELSE IF year % 4 = 0 THEN 29
    ELSE 28

\* Left on a field lo..hi: field = (field==lo) ? hi : field-1
\* Incr without the wrap at the upper end
Incr_nowrap(v, lo, hi) == v + 1

Decr(v, lo, hi) == IF v = lo THEN hi ELSE v - 1

\* Right on a field lo..hi: field = (field==hi) ? lo : field+1
Incr(v, lo, hi) == IF v = hi THEN lo ELSE v + 1

\* the clamp left out
ClampDay_none(d) == d

\* the clamp made against 31 days whatever the month
ClampDay_31(d) == [d EXCEPT !.day = IF @ > 31 THEN 31 ELSE @]

\* uint8_t day_num = number_of_days(set_date.year, set_date.month);
\* set_date.day = (set_date.day>day_num)?day_num:set_date.day;
ClampDay(d) ==
    LET day_num == number_of_days(d.year, d.month)
    IN  [d EXCEPT !.day = IF @ > day_num THEN day_num ELSE @]

(* ------------------------------------------------------------------ *)
(* RTC peripheral (pico-sdk hardware_rtc), as the source uses it       *)
(* ------------------------------------------------------------------ *)
\* rtc_set_datetime refuses a datetime with a field out of range
valid_datetime(t) ==
    /\ t.year \in 0..4095
    /\ t.month \in 1..12
    /\ t.day \in 1..31
    /\ t.dotw \in 0..6
    /\ t.hour \in 0..23
    /\ t.min \in 0..59
    /\ t.sec \in 0..59

(* ------------------------------------------------------------------ *)
(* The buttons: the user presses and releases them at any time         *)
(* ------------------------------------------------------------------ *)
gpio_get(b) == button[b]

\* A Left/Right press made while a wizard field is shown is an edit.
IsEdit(b) ==
    /\ b \in {LEFT_BUTTON, RIGHT_BUTTON}
    /\ current_mode \in ClockFieldModes \cup AlarmFieldModes

\* The presses are counted on the user's side.
Count(b) ==
    /\ lefts' = (IF IsEdit(b) /\ b = LEFT_BUTTON THEN lefts + 1 ELSE lefts)
    /\ rights' = (IF IsEdit(b) /\ b = RIGHT_BUTTON THEN rights + 1 ELSE rights)

\* Any button goes down or up at any moment, also while another is down and
\* wherever the program is; the user makes at most MaxEdits edits.
Press(b) ==
    /\ ~button[b]
    /\ IsEdit(b) => lefts + rights < MaxEdits
    /\ button' = [button EXCEPT ![b] = TRUE]
    /\ Count(b)
    /\ UNCHANGED <<globals, rtc, pc, cb, now, core0>>

Release(b) ==
    /\ button[b]
    /\ button' = [button EXCEPT ![b] = FALSE]
    /\ UNCHANGED <<globals, rtc, pc, cb, now, user, core0>>

(* ------------------------------------------------------------------ *)
(* core1_main                                                          *)
(* ------------------------------------------------------------------ *)
\* core1_main going on while alarm_callback runs
Running_concurrent == TRUE

\* core1_main executes only while alarm_callback (an interrupt handler on
\* the same core) is not running.
Running == cb = "idle"

\* The buttons a mode's if / else-if chain tests, in the order it tests them.
Chain(mode) ==
    IF mode = MENU THEN <<LEFT_BUTTON, RIGHT_BUTTON, SELECT_BUTTON>>
    ELSE IF mode \in FinalModes THEN <<SELECT_BUTTON>>
    ELSE <<LEFT_BUTTON, RIGHT_BUTTON, SELECT_BUTTON, BACK_BUTTON>>

\* Top of the loop in a mode that dispatches on the buttons: the first button
\* of the chain found pressed selects the branch, which starts by waiting for
\* that button to be released: while (gpio_get(X));
\* With no button pressed the iteration only waits WAIT_DURATION_MS.
Poll ==
    /\ Running
    /\ pc = "poll"
    /\ current_mode \notin {CLOCK, SLEEP_MODE}
    /\ \E i \in 1..Len(Chain(current_mode)) :
          /\ gpio_get(Chain(current_mode)[i])
          /\ \A j \in 1..(i - 1) : ~gpio_get(Chain(current_mode)[j])
          /\ pc' = Chain(current_mode)[i]
    /\ UNCHANGED <<globals, rtc, button, cb, now, user, core0>>

\* The branch of a button running without the wait for the release
Released_held == cb = "idle" /\ pc \in Buttons

\* The branch of a button runs once that button is released.
Released == Running /\ pc \in Buttons /\ ~gpio_get(pc)

\* MENU
Menu ==
    /\ Released
    /\ current_mode = MENU
    /\ CASE pc = LEFT_BUTTON ->
              /\ menu_index' = (IF menu_index = 0 THEN 2 ELSE menu_index - 1)
              /\ pc' = "poll"
              /\ UNCHANGED current_mode
         [] pc = RIGHT_BUTTON ->
              /\ menu_index' = (IF menu_index = 2 THEN 0 ELSE menu_index + 1)
              /\ pc' = "poll"
              /\ UNCHANGED current_mode
         [] pc = SELECT_BUTTON ->
              /\ IF menu_index = 0 THEN current_mode' = CLOCK /\ pc' = "l226"
                 ELSE IF menu_index = 1 THEN current_mode' = SET_CLOCK_YEAR /\ pc' = "l221"
                 ELSE IF menu_index = 2 THEN current_mode' = ALARM_MENU /\ pc' = "l226"
                 ELSE UNCHANGED current_mode /\ pc' = "l226"
              /\ UNCHANGED menu_index
    /\ UNCHANGED <<datetime_set, alarm_enabled, alarm_fired, alarm_count,
                   sleep_mode_count, alarm_settime, set_date, alarmtime,
                   rtc, button, cb, now, user, core0>>

\* Line 221 left out: the draft is not read from the RTC
Menu_l221_skip ==
    /\ cb = "idle"
    /\ pc = "l221"
    /\ pc' = "l226"
    /\ UNCHANGED <<globals, rtc, button, cb, now, user, core0>>

\* rtc_get_datetime(&set_date); the RTC runs since main started it
Menu_l221 ==
    /\ Running
    /\ pc = "l221"
    /\ set_date' = rtc_time
    /\ pc' = "l226"
    /\ UNCHANGED <<datetime_set, alarm_enabled, alarm_fired, current_mode, menu_index,
                   alarm_count, sleep_mode_count, alarm_settime, alarmtime,
                   rtc, button, cb, now, user, core0>>

\* menu_index = 0;
Menu_l226 ==
    /\ Running
    /\ pc = "l226"
    /\ menu_index' = 0
    /\ pc' = "poll"
    /\ UNCHANGED <<datetime_set, alarm_enabled, alarm_fired, current_mode,
                   alarm_count, sleep_mode_count, alarm_settime, set_date, alarmtime,
                   rtc, button, cb, now, user, core0>>

\* What a clock-wizard branch leaves alone.
ClockWizardFrame ==
    UNCHANGED <<datetime_set, alarm_enabled, alarm_fired, menu_index, alarm_count,
                sleep_mode_count, alarm_settime, alarmtime,
                rtc_alarm, rtc_alarm_on, button, cb, now, user, core0>>

\* SET_CLOCK_YEAR
SetClockYear ==
    /\ Released
    /\ current_mode = SET_CLOCK_YEAR
    /\ CASE pc = LEFT_BUTTON ->
              /\ set_date' = [set_date EXCEPT !.year = Decr(@, 0, 4095)]
              /\ UNCHANGED current_mode
         [] pc = RIGHT_BUTTON ->
              /\ set_date' = [set_date EXCEPT !.year = Incr(@, 0, 4095)]
              /\ UNCHANGED current_mode
         [] pc = SELECT_BUTTON ->
              /\ current_mode' = SET_CLOCK_MONTH
              /\ UNCHANGED set_date
         [] pc = BACK_BUTTON ->
              /\ current_mode' = MENU
              /\ UNCHANGED set_date
    /\ pc' = "poll"
    /\ UNCHANGED rtc_time
    /\ ClockWizardFrame

\* A SET_CLOCK_MONTH branch whose Back leaves the wizard.
SetClockMonth_toMenu ==
    /\ Released
    /\ current_mode = SET_CLOCK_MONTH
    /\ CASE pc = LEFT_BUTTON ->
              /\ set_date' = [set_date EXCEPT !.month = Decr(@, 1, 12)]
              /\ UNCHANGED current_mode
              /\ pc' = "poll"
         [] pc = RIGHT_BUTTON ->
              /\ set_date' = [set_date EXCEPT !.month = Incr(@, 1, 12)]
              /\ UNCHANGED current_mode
              /\ pc' = "poll"
         [] pc = SELECT_BUTTON ->
              /\ set_date' = ClampDay(set_date)
              /\ UNCHANGED current_mode
              /\ pc' = "l261"
         [] pc = BACK_BUTTON ->
              /\ current_mode' = MENU
              /\ UNCHANGED set_date
              /\ pc' = "poll"
    /\ UNCHANGED rtc_time
    /\ ClockWizardFrame

\* SET_CLOCK_MONTH; Select computes day_num and clamps the day (lines 259-260)
SetClockMonth ==
    /\ Released
    /\ current_mode = SET_CLOCK_MONTH
    /\ CASE pc = LEFT_BUTTON ->
              /\ set_date' = [set_date EXCEPT !.month = Decr(@, 1, 12)]
              /\ UNCHANGED current_mode
              /\ pc' = "poll"
         [] pc = RIGHT_BUTTON ->
              /\ set_date' = [set_date EXCEPT !.month = Incr(@, 1, 12)]
              /\ UNCHANGED current_mode
              /\ pc' = "poll"
         [] pc = SELECT_BUTTON ->
              /\ set_date' = ClampDay(set_date)
              /\ UNCHANGED current_mode
              /\ pc' = "l261"
         [] pc = BACK_BUTTON ->
              /\ current_mode' = SET_CLOCK_YEAR
              /\ UNCHANGED set_date
              /\ pc' = "poll"
    /\ UNCHANGED rtc_time
    /\ ClockWizardFrame

\* current_mode = SET_CLOCK_DAY;
SetClockMonth_l261 ==
    /\ Running
    /\ pc = "l261"
    /\ current_mode' = SET_CLOCK_DAY
    /\ pc' = "poll"
    /\ UNCHANGED <<set_date, rtc_time>>
    /\ ClockWizardFrame

\* SET_CLOCK_DAY
SetClockDay ==
    /\ Released
    /\ current_mode = SET_CLOCK_DAY
    /\ LET day_num == number_of_days(set_date.year, set_date.month)
       IN CASE pc = LEFT_BUTTON ->
                 /\ set_date' = [set_date EXCEPT !.day = Decr(@, 1, day_num)]
                 /\ UNCHANGED current_mode
            [] pc = RIGHT_BUTTON ->
                 /\ set_date' = [set_date EXCEPT !.day = Incr(@, 1, day_num)]
                 /\ UNCHANGED current_mode
            [] pc = SELECT_BUTTON ->
                 /\ current_mode' = SET_CLOCK_WEEKDAY
                 /\ UNCHANGED set_date
            [] pc = BACK_BUTTON ->
                 /\ current_mode' = SET_CLOCK_MONTH
                 /\ UNCHANGED set_date
    /\ pc' = "poll"
    /\ UNCHANGED rtc_time
    /\ ClockWizardFrame

\* SET_CLOCK_WEEKDAY
SetClockWeekday ==
    /\ Released
    /\ current_mode = SET_CLOCK_WEEKDAY
    /\ CASE pc = LEFT_BUTTON ->
              /\ set_date' = [set_date EXCEPT !.dotw = Decr(@, 0, 6)]
              /\ UNCHANGED current_mode
         [] pc = RIGHT_BUTTON ->
              /\ set_date' = [set_date EXCEPT !.dotw = Incr(@, 0, 6)]
              /\ UNCHANGED current_mode
         [] pc = SELECT_BUTTON ->
              /\ current_mode' = SET_CLOCK_HOUR
              /\ UNCHANGED set_date
         [] pc = BACK_BUTTON ->
              /\ current_mode' = SET_CLOCK_DAY
              /\ UNCHANGED set_date
    /\ pc' = "poll"
    /\ UNCHANGED rtc_time
    /\ ClockWizardFrame

\* SET_CLOCK_HOUR
SetClockHour ==
    /\ Released
    /\ current_mode = SET_CLOCK_HOUR
    /\ CASE pc = LEFT_BUTTON ->
              /\ set_date' = [set_date EXCEPT !.hour = Decr(@, 0, 23)]
              /\ UNCHANGED current_mode
         [] pc = RIGHT_BUTTON ->
              /\ set_date' = [set_date EXCEPT !.hour = Incr(@, 0, 23)]
              /\ UNCHANGED current_mode
         [] pc = SELECT_BUTTON ->
              /\ current_mode' = SET_CLOCK_MIN
              /\ UNCHANGED set_date
         [] pc = BACK_BUTTON ->
              /\ current_mode' = SET_CLOCK_WEEKDAY
              /\ UNCHANGED set_date
    /\ pc' = "poll"
    /\ UNCHANGED rtc_time
    /\ ClockWizardFrame

\* SET_CLOCK_MIN
SetClockMin ==
    /\ Released
    /\ current_mode = SET_CLOCK_MIN
    /\ CASE pc = LEFT_BUTTON ->
              /\ set_date' = [set_date EXCEPT !.min = Decr(@, 0, 59)]
              /\ UNCHANGED current_mode
         [] pc = RIGHT_BUTTON ->
              /\ set_date' = [set_date EXCEPT !.min = Incr(@, 0, 59)]
              /\ UNCHANGED current_mode
         [] pc = SELECT_BUTTON ->
              /\ current_mode' = SET_CLOCK_SEC
              /\ UNCHANGED set_date
         [] pc = BACK_BUTTON ->
              /\ current_mode' = SET_CLOCK_HOUR
              /\ UNCHANGED set_date
    /\ pc' = "poll"
    /\ UNCHANGED rtc_time
    /\ ClockWizardFrame

\* SET_CLOCK_SEC; Select commits the draft: datetime_set = rtc_set_datetime(&set_date)
SetClockSec ==
    /\ Released
    /\ current_mode = SET_CLOCK_SEC
    /\ CASE pc = LEFT_BUTTON ->
              /\ set_date' = [set_date EXCEPT !.sec = Decr(@, 0, 59)]
              /\ pc' = "poll"
              /\ UNCHANGED <<current_mode, datetime_set, rtc_time>>
         [] pc = RIGHT_BUTTON ->
              /\ set_date' = [set_date EXCEPT !.sec = Incr(@, 0, 59)]
              /\ pc' = "poll"
              /\ UNCHANGED <<current_mode, datetime_set, rtc_time>>
         [] pc = SELECT_BUTTON ->
              /\ datetime_set' = valid_datetime(set_date)
              /\ rtc_time' = (IF valid_datetime(set_date) THEN set_date ELSE rtc_time)
              /\ pc' = "l353"
              /\ UNCHANGED <<current_mode, set_date>>
         [] pc = BACK_BUTTON ->
              /\ current_mode' = SET_CLOCK_MIN
              /\ pc' = "poll"
              /\ UNCHANGED <<set_date, datetime_set, rtc_time>>
    /\ UNCHANGED <<alarm_enabled, alarm_fired, menu_index, alarm_count,
                   sleep_mode_count, alarm_settime, alarmtime,
                   rtc_alarm, rtc_alarm_on, button, cb, now, user, core0>>

\* Line 353 going on to SET_CLOCK_FINAL only if the RTC took the date-time
SetClockSec_l353_retry ==
    /\ cb = "idle"
    /\ pc = "l353"
    /\ current_mode' = (IF datetime_set THEN SET_CLOCK_FINAL ELSE SET_CLOCK_SEC)
    /\ pc' = "poll"
    /\ UNCHANGED <<set_date, rtc_time>>
    /\ ClockWizardFrame

\* current_mode = SET_CLOCK_FINAL;
SetClockSec_l353 ==
    /\ Running
    /\ pc = "l353"
    /\ current_mode' = SET_CLOCK_FINAL
    /\ pc' = "poll"
    /\ UNCHANGED <<set_date, rtc_time>>
    /\ ClockWizardFrame

\* Select in a final mode leading to MENU instead of CLOCK
Final_toMenu ==
    /\ Released
    /\ current_mode \in FinalModes
    /\ pc = SELECT_BUTTON
    /\ current_mode' = MENU
    /\ pc' = "poll"
    /\ UNCHANGED <<set_date, rtc_time>>
    /\ ClockWizardFrame

\* SET_ALARM_FINAL, SET_CLOCK_FINAL, DISABLE_ALARM: only Select is tested
Final ==
    /\ Released
    /\ current_mode \in FinalModes
    /\ pc = SELECT_BUTTON
    /\ current_mode' = CLOCK
    /\ pc' = "poll"
    /\ UNCHANGED <<set_date, rtc_time>>
    /\ ClockWizardFrame

\* ALARM_MENU.  Select on entry 0 starts with the call to the RTC (lines
\* 372-375): rtc_disable_alarm() clears the match enable, rtc_set_alarm()
\* installs alarmtime with alarm_callback and sets it.
AlarmMenu ==
    /\ Released
    /\ current_mode = ALARM_MENU
    /\ CASE pc = LEFT_BUTTON ->
              /\ menu_index' = (IF menu_index = 0 THEN 1 ELSE 0)
              /\ pc' = "poll"
              /\ UNCHANGED <<current_mode, rtc_alarm, rtc_alarm_on>>
         [] pc = RIGHT_BUTTON ->
              /\ menu_index' = (IF menu_index = 1 THEN 0 ELSE 1)
              /\ pc' = "poll"
              /\ UNCHANGED <<current_mode, rtc_alarm, rtc_alarm_on>>
         [] pc = SELECT_BUTTON ->
              IF menu_index = 0
              THEN /\ IF alarm_enabled
                      THEN rtc_alarm_on' = FALSE /\ UNCHANGED rtc_alarm
                      ELSE rtc_alarm_on' = TRUE /\ rtc_alarm' = alarmtime
                   /\ pc' = "l376"
                   /\ UNCHANGED <<current_mode, menu_index>>
              ELSE IF menu_index = 1
              THEN /\ current_mode' = SET_ALARM_HOUR
                   /\ pc' = "l381"
                   /\ UNCHANGED <<menu_index, rtc_alarm, rtc_alarm_on>>
              ELSE /\ pc' = "l383"
                   /\ UNCHANGED <<current_mode, menu_index, rtc_alarm, rtc_alarm_on>>
         [] pc = BACK_BUTTON ->
              /\ current_mode' = MENU
              /\ pc' = "l388"
              /\ UNCHANGED <<menu_index, rtc_alarm, rtc_alarm_on>>
    /\ UNCHANGED <<datetime_set, alarm_enabled, alarm_fired, alarm_count,
                   sleep_mode_count, alarm_settime, set_date, alarmtime,
                   rtc_time, button, cb, now, user, core0>>

\* Line 376 setting alarm_enabled instead of negating it
AlarmMenu_l376_set ==
    /\ cb = "idle"
    /\ pc = "l376"
    /\ alarm_enabled' = TRUE
    /\ pc' = "l377"
    /\ UNCHANGED <<datetime_set, alarm_fired, current_mode, menu_index, alarm_count,
                   sleep_mode_count, alarm_settime, set_date, alarmtime,
                   rtc, button, cb, now, user, core0>>

\* alarm_enabled = !alarm_enabled;
AlarmMenu_l376 ==
    /\ Running
    /\ pc = "l376"
    /\ alarm_enabled' = ~alarm_enabled
    /\ pc' = "l377"
    /\ UNCHANGED <<datetime_set, alarm_fired, current_mode, menu_index, alarm_count,
                   sleep_mode_count, alarm_settime, set_date, alarmtime,
                   rtc, button, cb, now, user, core0>>

\* current_mode = DISABLE_ALARM;
AlarmMenu_l377 ==
    /\ Running
    /\ pc = "l377"
    /\ current_mode' = DISABLE_ALARM
    /\ pc' = "l383"
    /\ UNCHANGED <<datetime_set, alarm_enabled, alarm_fired, menu_index, alarm_count,
                   sleep_mode_count, alarm_settime, set_date, alarmtime,
                   rtc, button, cb, now, user, core0>>

\* alarm_settime = alarmtime;
AlarmMenu_l381 ==
    /\ Running
    /\ pc = "l381"
    /\ alarm_settime' = alarmtime
    /\ pc' = "l383"
    /\ UNCHANGED <<datetime_set, alarm_enabled, alarm_fired, current_mode, menu_index,
                   alarm_count, sleep_mode_count, set_date, alarmtime,
                   rtc, button, cb, now, user, core0>>

\* menu_index = 0;  (line 383 after Select, line 388 after Back)
AlarmMenu_l383 ==
    /\ Running
    /\ pc \in {"l383", "l388"}
    /\ menu_index' = 0
    /\ pc' = "poll"
    /\ UNCHANGED <<datetime_set, alarm_enabled, alarm_fired, current_mode,
                   alarm_count, sleep_mode_count, alarm_settime, set_date, alarmtime,
                   rtc, button, cb, now, user, core0>>

\* What an alarm-wizard field branch leaves alone.
AlarmWizardFrame ==
    UNCHANGED <<datetime_set, alarm_enabled, alarm_fired, menu_index, alarm_count,
                sleep_mode_count, set_date, rtc, button, cb, now, user, core0>>

\* SET_ALARM_HOUR
SetAlarmHour ==
    /\ Released
    /\ current_mode = SET_ALARM_HOUR
    /\ CASE pc = LEFT_BUTTON ->
              /\ alarm_settime' = [alarm_settime EXCEPT !.hour = Decr(@, 0, 23)]
              /\ UNCHANGED current_mode
         [] pc = RIGHT_BUTTON ->
              /\ alarm_settime' = [alarm_settime EXCEPT !.hour = Incr(@, 0, 23)]
              /\ UNCHANGED current_mode
         [] pc = SELECT_BUTTON ->
              /\ current_mode' = SET_ALARM_MIN
              /\ UNCHANGED alarm_settime
         [] pc = BACK_BUTTON ->
              /\ current_mode' = MENU
              /\ UNCHANGED alarm_settime
    /\ pc' = "poll"
    /\ UNCHANGED alarmtime
    /\ AlarmWizardFrame

\* SET_ALARM_MIN
SetAlarmMin ==
    /\ Released
    /\ current_mode = SET_ALARM_MIN
    /\ CASE pc = LEFT_BUTTON ->
              /\ alarm_settime' = [alarm_settime EXCEPT !.min = Decr(@, 0, 59)]
              /\ UNCHANGED current_mode
         [] pc = RIGHT_BUTTON ->
              /\ alarm_settime' = [alarm_settime EXCEPT !.min = Incr(@, 0, 59)]
              /\ UNCHANGED current_mode
         [] pc = SELECT_BUTTON ->
              /\ current_mode' = SET_ALARM_SEC
              /\ UNCHANGED alarm_settime
         [] pc = BACK_BUTTON ->
              /\ current_mode' = SET_ALARM_HOUR
              /\ UNCHANGED alarm_settime
    /\ pc' = "poll"
    /\ UNCHANGED alarmtime
    /\ AlarmWizardFrame

\* SET_ALARM_SEC; Select starts the commit with alarmtime = alarm_settime;
SetAlarmSec ==
    /\ Released
    /\ current_mode = SET_ALARM_SEC
    /\ CASE pc = LEFT_BUTTON ->
              /\ alarm_settime' = [alarm_settime EXCEPT !.sec = Decr(@, 0, 59)]
              /\ pc' = "poll"
              /\ UNCHANGED <<current_mode, alarmtime>>
         [] pc = RIGHT_BUTTON ->
              /\ alarm_settime' = [alarm_settime EXCEPT !.sec = Incr(@, 0, 59)]
              /\ pc' = "poll"
              /\ UNCHANGED <<current_mode, alarmtime>>
         [] pc = SELECT_BUTTON ->
              /\ alarmtime' = alarm_settime
              /\ pc' = "l439"
              /\ UNCHANGED <<current_mode, alarm_settime>>
         [] pc = BACK_BUTTON ->
              /\ current_mode' = SET_ALARM_MIN
              /\ pc' = "poll"
              /\ UNCHANGED <<alarm_settime, alarmtime>>
    /\ AlarmWizardFrame

\* Line 439 switching the RTC's alarm over instead of setting it
SetAlarmSec_l439_flip ==
    /\ cb = "idle"
    /\ pc = "l439"
    /\ rtc_alarm' = alarmtime
    /\ rtc_alarm_on' = ~rtc_alarm_on
    /\ pc' = "l440"
    /\ UNCHANGED <<globals, rtc_time, button, cb, now, user, core0>>

\* rtc_set_alarm(&alarmtime, &alarm_callback);
SetAlarmSec_l439 ==
    /\ Running
    /\ pc = "l439"
    /\ rtc_alarm' = alarmtime
    /\ rtc_alarm_on' = TRUE
    /\ pc' = "l440"
    /\ UNCHANGED <<globals, rtc_time, button, cb, now, user, core0>>

\* Line 440 toggling alarm_enabled instead of setting it
SetAlarmSec_l440_toggle ==
    /\ cb = "idle"
    /\ pc = "l440"
    /\ alarm_enabled' = ~alarm_enabled
    /\ pc' = "l441"
    /\ UNCHANGED <<datetime_set, alarm_fired, current_mode, menu_index, alarm_count,
                   sleep_mode_count, alarm_settime, set_date, alarmtime,
                   rtc, button, cb, now, user, core0>>

\* alarm_enabled = true;
SetAlarmSec_l440 ==
    /\ Running
    /\ pc = "l440"
    /\ alarm_enabled' = TRUE
    /\ pc' = "l441"
    /\ UNCHANGED <<datetime_set, alarm_fired, current_mode, menu_index, alarm_count,
                   sleep_mode_count, alarm_settime, set_date, alarmtime,
                   rtc, button, cb, now, user, core0>>

\* current_mode = SET_ALARM_FINAL;
SetAlarmSec_l441 ==
    /\ Running
    /\ pc = "l441"
    /\ current_mode' = SET_ALARM_FINAL
    /\ pc' = "poll"
    /\ UNCHANGED <<datetime_set, alarm_enabled, alarm_fired, menu_index, alarm_count,
                   sleep_mode_count, alarm_settime, set_date, alarmtime,
                   rtc, button, cb, now, user, core0>>

\* Lines 190-194, which end every iteration spent in the CLOCK branch:
\* sleep_mode_count++ (a uint16_t); at the threshold the count is reset and
\* SLEEP_MODE entered.  IdleTick gives the count and the mode they leave.
Threshold == SLEEP_MODE_ACTIVATION_TIME_MS \div WAIT_DURATION_MS

\* The threshold test one count early
IdleTick_early(count, mode) ==
    LET c == (count + 1) % 65536
    IN  IF c = Threshold - 1 THEN <<0, SLEEP_MODE>> ELSE <<c, mode>>

IdleTick(count, mode) ==
    LET c == (count + 1) % 65536
    IN  IF c = Threshold THEN <<0, SLEEP_MODE>> ELSE <<c, mode>>

\* CLOCK, top of the loop: Back pressed enters the wait for its release;
\* otherwise the iteration is lines 190-194 and the delay.
Clock ==
    /\ Running
    /\ pc = "poll"
    /\ current_mode = CLOCK
    /\ IF gpio_get(BACK_BUTTON)
       THEN /\ pc' = BACK_BUTTON
            /\ UNCHANGED <<sleep_mode_count, current_mode>>
       ELSE /\ sleep_mode_count' = IdleTick(sleep_mode_count, current_mode)[1]
            /\ current_mode' = IdleTick(sleep_mode_count, current_mode)[2]
            /\ pc' = "poll"
    /\ UNCHANGED <<datetime_set, alarm_enabled, alarm_fired, menu_index, alarm_count,
                   alarm_settime, set_date, alarmtime, rtc, button, cb, now, user, core0>>

\* Back released in CLOCK: sleep_mode_count = 0; current_mode = MENU;
Clock_l186 ==
    /\ Released
    /\ current_mode = CLOCK
    /\ pc = BACK_BUTTON
    /\ sleep_mode_count' = 0
    /\ current_mode' = MENU
    /\ pc' = "l190"
    /\ UNCHANGED <<datetime_set, alarm_enabled, alarm_fired, menu_index, alarm_count,
                   alarm_settime, set_date, alarmtime, rtc, button, cb, now, user, core0>>

\* ... and the same iteration goes on to lines 190-194.
Clock_l190 ==
    /\ Running
    /\ pc = "l190"
    /\ sleep_mode_count' = IdleTick(sleep_mode_count, current_mode)[1]
    /\ current_mode' = IdleTick(sleep_mode_count, current_mode)[2]
    /\ pc' = "poll"
    /\ UNCHANGED <<datetime_set, alarm_enabled, alarm_fired, menu_index, alarm_count,
                   alarm_settime, set_date, alarmtime, rtc, button, cb, now, user, core0>>

AnyPressed == \E b \in Buttons : gpio_get(b)

\* SLEEP_MODE, first loop (line 197): left as soon as a button is found pressed.
SleepMode ==
    /\ Running
    /\ pc = "poll"
    /\ current_mode = SLEEP_MODE
    /\ AnyPressed
    /\ pc' = "l201"
    /\ UNCHANGED <<globals, rtc, button, cb, now, user, core0>>

\* SLEEP_MODE, second loop (line 201): once no button is pressed,
\* current_mode = CLOCK;
SleepMode_l201 ==
    /\ Running
    /\ pc = "l201"
    /\ ~AnyPressed
    /\ current_mode' = CLOCK
    /\ pc' = "poll"
    /\ UNCHANGED <<datetime_set, alarm_enabled, alarm_fired, menu_index, alarm_count,
                   sleep_mode_count, alarm_settime, set_date, alarmtime,
                   rtc, button, cb, now, user, core0>>

(* ------------------------------------------------------------------ *)
(* alarm_callback: the RTC interrupt handler, on core 1                *)
(* ------------------------------------------------------------------ *)
\* uint64_t duration_us = MAX_ALARM_TIME_SEC*1000000; end = start + duration_us
\* (now counts from start)
End == MAX_ALARM_TIME_SEC * 1000000

\* buzz(BUZZER_FREQ) busy-waits 500000/freq microseconds twice
BuzzTime == 2 * (500000 \div BUZZER_FREQ)

\* The calls of buzz a loop makes before its test finds time_us_64() >= end,
\* if the button leaves it alone.
BuzzesLeft == (End - now + BuzzTime - 1) \div BuzzTime

\* The compare match arrives while the alarm is installed and enabled in the
\* RTC; the handler is entered (not while it already runs) at whatever point
\* core1_main has reached.  Lines 140-144: alarm_fired = true, start taken.
alarm_callback ==
    /\ rtc_alarm_on
    /\ cb = "idle"
    /\ alarm_fired' = TRUE
    /\ now' = 0
    /\ cb' = "l145"
    /\ UNCHANGED <<datetime_set, alarm_enabled, current_mode, menu_index, alarm_count,
                   sleep_mode_count, alarm_settime, set_date, alarmtime,
                   rtc, button, pc, user, core0>>

\* while (!gpio_get(SELECT_BUTTON) && time_us_64()<end) buzz(BUZZER_FREQ);
\* k passes of the loop, the button not touched meanwhile.
alarm_callback_l145(k) ==
    /\ cb = "l145"
    /\ IF ~gpio_get(SELECT_BUTTON) /\ now < End
       THEN /\ k >= 1 /\ now + (k - 1) * BuzzTime < End
            /\ now' = now + k * BuzzTime
            /\ cb' = "l145"
       ELSE /\ cb' = "l146"
            /\ UNCHANGED now
    /\ UNCHANGED <<globals, rtc, button, pc, user, core0>>

\* while (gpio_get(SELECT_BUTTON) && time_us_64()<end) buzz(BUZZER_FREQ);
alarm_callback_l146(k) ==
    /\ cb = "l146"
    /\ IF gpio_get(SELECT_BUTTON) /\ now < End
       THEN /\ k >= 1 /\ now + (k - 1) * BuzzTime < End
            /\ now' = now + k * BuzzTime
            /\ cb' = "l146"
       ELSE /\ cb' = "l149"
            /\ UNCHANGED now
    /\ UNCHANGED <<globals, rtc, button, pc, user, core0>>

\* alarm_fired = false;
alarm_callback_l149 ==
    /\ cb = "l149"
    /\ alarm_fired' = FALSE
    /\ cb' = "l150"
    /\ UNCHANGED <<datetime_set, alarm_enabled, current_mode, menu_index, alarm_count,
                   sleep_mode_count, alarm_settime, set_date, alarmtime,
                   rtc, button, pc, now, user, core0>>

\* alarm_count = 0;
alarm_callback_l150 ==
    /\ cb = "l150"
    /\ alarm_count' = 0
    /\ cb' = "l151"
    /\ UNCHANGED <<datetime_set, alarm_enabled, alarm_fired, current_mode, menu_index,
                   sleep_mode_count, alarm_settime, set_date, alarmtime,
                   rtc, button, pc, now, user, core0>>

\* Line 151 waiting for Select to be pressed instead of released
alarm_callback_l151_inverted ==
    /\ cb = "l151"
    /\ gpio_get(SELECT_BUTTON)
    /\ cb' = "idle"
    /\ now' = 0
    /\ UNCHANGED <<globals, rtc, button, pc, user, core0>>

\* while (gpio_get(SELECT_BUTTON)); then the settle delay and the return
\* to core1_main
alarm_callback_l151 ==
    /\ cb = "l151"
    /\ ~gpio_get(SELECT_BUTTON)
    /\ cb' = "idle"
    /\ now' = 0
    /\ UNCHANGED <<globals, rtc, button, pc, user, core0>>

(* ------------------------------------------------------------------ *)
(* The clock-edit wizard: Menu, SET_CLOCK_YEAR .. SET_CLOCK_FINAL      *)
(* ------------------------------------------------------------------ *)
\* Date-times the RTC can hold when the wizard is entered: the start-up date
\* and days at the end of a month, in leap and non-leap years.
RtcSamples ==
    { InitialDate,
      DT(2024, 1, 31, 3, 23, 59, 59),
      DT(2023, 3, 31, 5, 0, 0, 0),
      DT(2024, 2, 29, 4, 12, 30, 0) }

\* Parts of an initial state.  The flags and counters as their initialisers
\* leave them, no button pressed, alarm_callback not running.
InitCommon ==
    /\ datetime_set = FALSE
    /\ alarm_fired = FALSE
    /\ alarm_count = 0
    /\ sleep_mode_count = 0
    /\ button = [b \in Buttons |-> FALSE]
    /\ cb = "idle"
    /\ now = 0
    /\ lefts = 0
    /\ rights = 0
    /\ Core0Idle

\* No alarm set yet: alarm_enabled = false, alarmtime = 08:00:00, nothing installed.
AlarmOff ==
    /\ alarm_enabled = FALSE
    /\ alarmtime = InitialAlarmtime
    /\ alarm_settime = ZeroDatetime
    /\ rtc_alarm = ZeroDatetime
    /\ rtc_alarm_on = FALSE

\* core1_main at the top of its loop in MENU, the cursor on the first entry.
AtMenu ==
    /\ current_mode = MENU
    /\ menu_index = 0
    /\ pc = "poll"

\* Start-up, some time later: the RTC has run on to one of the samples.
InitClockWizard ==
    /\ InitCommon
    /\ AlarmOff
    /\ AtMenu
    /\ set_date = ZeroDatetime
    /\ rtc_time \in RtcSamples

NextClockWizard ==
    \/ \E b \in Buttons : Press(b)
    \/ \E b \in Buttons : Release(b)
    \/ Poll
    \/ Menu
    \/ Menu_l221
    \/ Menu_l226
    \/ SetClockYear
    \/ SetClockMonth
    \/ SetClockMonth_l261
    \/ SetClockDay
    \/ SetClockWeekday
    \/ SetClockHour
    \/ SetClockMin
    \/ SetClockSec
    \/ SetClockSec_l353
    \/ Final

SpecClockWizard == InitClockWizard /\ [][NextClockWizard]_vars

(* ------------------------------------------------------------------ *)
(* MENU, CLOCK and SLEEP_MODE, with the alarm going off                *)
(* ------------------------------------------------------------------ *)
\* The alarm as Select on the first entry of ALARM_MENU leaves it when it
\* was off: alarmtime (08:00:00) installed, alarm_enabled = true.
AlarmArmed ==
    /\ alarm_enabled = TRUE
    /\ alarmtime = InitialAlarmtime
    /\ alarm_settime = ZeroDatetime
    /\ rtc_alarm = InitialAlarmtime
    /\ rtc_alarm_on = TRUE

\* Either the state main and core1_main start from, or the state after the
\* alarm has been enabled from ALARM_MENU (DISABLE_ALARM shows the outcome).
InitIdle ==
    /\ InitCommon
    /\ set_date = ZeroDatetime
    /\ rtc_time = InitialDate
    /\ \/ AtMenu /\ AlarmOff
       \/ /\ AlarmArmed
          /\ current_mode = DISABLE_ALARM
          /\ menu_index = 0
          /\ pc = "poll"

NextIdle ==
    \/ \E b \in Buttons : Press(b)
    \/ \E b \in Buttons : Release(b)
    \/ Poll
    \/ Menu
    \/ Menu_l221
    \/ Menu_l226
    \/ Final
    \/ Clock
    \/ Clock_l186
    \/ Clock_l190
    \/ SleepMode
    \/ SleepMode_l201
    \/ alarm_callback
    \/ alarm_callback_l145(BuzzesLeft)
    \/ alarm_callback_l146(BuzzesLeft)
    \/ alarm_callback_l149
    \/ alarm_callback_l150
    \/ alarm_callback_l151

SpecIdle == InitIdle /\ [][NextIdle]_vars

(* ------------------------------------------------------------------ *)
(* alarm_callback with its time, one call of buzz at a time            *)
(* ------------------------------------------------------------------ *)
\* The alarm has been enabled from ALARM_MENU; of the buttons only Select,
\* the one alarm_callback reads, is used.
InitFiring ==
    /\ InitCommon
    /\ set_date = ZeroDatetime
    /\ rtc_time = InitialDate
    /\ AlarmArmed
    /\ current_mode = DISABLE_ALARM
    /\ menu_index = 0
    /\ pc = "poll"

NextFiring ==
    \/ Press(SELECT_BUTTON)
    \/ Release(SELECT_BUTTON)
    \/ alarm_callback
    \/ alarm_callback_l145(1)
    \/ alarm_callback_l146(1)
    \/ alarm_callback_l149
    \/ alarm_callback_l150
    \/ alarm_callback_l151

SpecFiring == InitFiring /\ [][NextFiring]_vars

(* ------------------------------------------------------------------ *)
(* MENU, ALARM_MENU and the alarm-edit wizard, with the alarm going off *)
(* ------------------------------------------------------------------ *)
\* The start-up state, or MENU reached again with the alarm enabled (the way
\* back leads through CLOCK, which leaves sleep_mode_count at 1).
InitAlarm ==
    /\ datetime_set = FALSE
    /\ alarm_fired = FALSE
    /\ alarm_count = 0
    /\ button = [b \in Buttons |-> FALSE]
    /\ cb = "idle"
    /\ now = 0
    /\ lefts = 0
    /\ rights = 0
    /\ Core0Idle
    /\ set_date = ZeroDatetime
    /\ rtc_time = InitialDate
    /\ AtMenu
    /\ \/ AlarmOff /\ sleep_mode_count = 0
       \/ AlarmArmed /\ sleep_mode_count = 1

NextAlarm ==
    \/ \E b \in Buttons : Press(b)
    \/ \E b \in Buttons : Release(b)
    \/ Poll
    \/ Menu
    \/ Menu_l221
    \/ Menu_l226
    \/ AlarmMenu
    \/ AlarmMenu_l376
    \/ AlarmMenu_l377
    \/ AlarmMenu_l381
    \/ AlarmMenu_l383
    \/ SetAlarmHour
    \/ SetAlarmMin
    \/ SetAlarmSec
    \/ SetAlarmSec_l439
    \/ SetAlarmSec_l440
    \/ SetAlarmSec_l441
    \/ Final
    \/ alarm_callback
    \/ alarm_callback_l145(BuzzesLeft)
    \/ alarm_callback_l146(BuzzesLeft)
    \/ alarm_callback_l149
    \/ alarm_callback_l150
    \/ alarm_callback_l151

SpecAlarm == InitAlarm /\ [][NextAlarm]_vars

(* ------------------------------------------------------------------ *)
(* One wizard field under Left and Right                               *)
(* ------------------------------------------------------------------ *)
\* The draft a field mode edits, the member of it the mode shows, and what
\* the draft was copied from on the way in (lines 221 and 381).
Draft(mode) == IF mode \in ClockFieldModes THEN set_date ELSE alarm_settime

Seed(mode) == IF mode \in ClockFieldModes THEN rtc_time ELSE alarmtime

FieldName(mode) ==
    CASE mode = SET_CLOCK_YEAR -> "year"
      [] mode = SET_CLOCK_MONTH -> "month"
      [] mode = SET_CLOCK_DAY -> "day"
      [] mode = SET_CLOCK_WEEKDAY -> "dotw"
      [] mode \in {SET_CLOCK_HOUR, SET_ALARM_HOUR} -> "hour"
      [] mode \in {SET_CLOCK_MIN, SET_ALARM_MIN} -> "min"
      [] mode \in {SET_CLOCK_SEC, SET_ALARM_SEC} -> "sec"

\* How many values the branch of a field mode lets its field take.
FieldSize(mode) ==
    CASE mode = SET_CLOCK_YEAR -> 4096
      [] mode = SET_CLOCK_MONTH -> 12
      [] mode = SET_CLOCK_DAY -> number_of_days(set_date.year, set_date.month)
      [] mode = SET_CLOCK_WEEKDAY -> 7
      [] mode \in {SET_CLOCK_HOUR, SET_ALARM_HOUR} -> 24
      [] mode \in {SET_CLOCK_MIN, SET_ALARM_MIN, SET_CLOCK_SEC, SET_ALARM_SEC} -> 60

\* Values the field shown starts from: all of them, of the years a few.
FieldStarts(mode) ==
    CASE mode = SET_CLOCK_YEAR -> {0, 2022, 2024, 4095}
      [] mode = SET_CLOCK_MONTH -> 1..12
      [] mode = SET_CLOCK_DAY -> 1..31
      [] mode = SET_CLOCK_WEEKDAY -> 0..6
      [] mode \in {SET_CLOCK_HOUR, SET_ALARM_HOUR} -> 0..23
      [] mode \in {SET_CLOCK_MIN, SET_ALARM_MIN, SET_CLOCK_SEC, SET_ALARM_SEC} -> 0..59

\* A user who presses one of Left and Right at a time, when the loop is at
\* its top, and lets go once the branch waits for the release: Right at most
\* once round the field, Left at most MaxLefts times.
CleanPress(b) ==
    /\ pc = "poll"
    /\ ~(\E x \in Buttons : button[x])
    /\ b = RIGHT_BUTTON => rights < FieldSize(current_mode)
    /\ b = LEFT_BUTTON => lefts < MaxLefts
    /\ button' = [button EXCEPT ![b] = TRUE]
    /\ Count(b)
    /\ UNCHANGED <<globals, rtc, pc, cb, now, core0>>

CleanRelease(b) ==
    /\ pc = b
    /\ Release(b)

\* A field mode just entered: the draft is the copy made on the way in, of
\* an RTC date-time (lines 221) or of the stored alarm time (line 381), which
\* is an alarm set and enabled earlier.
InitCycle ==
    /\ datetime_set = FALSE
    /\ alarm_fired = FALSE
    /\ alarm_count = 0
    /\ button = [b \in Buttons |-> FALSE]
    /\ cb = "idle"
    /\ now = 0
    /\ lefts = 0
    /\ rights = 0
    /\ Core0Idle
    /\ menu_index = 0
    /\ pc = "poll"
    /\ current_mode \in ClockFieldModes \cup AlarmFieldModes
    /\ IF current_mode \in ClockFieldModes
       THEN /\ AlarmOff
            /\ sleep_mode_count = 0
            /\ \E s \in RtcSamples, v \in FieldStarts(current_mode) :
                  /\ rtc_time = [s EXCEPT ![FieldName(current_mode)] = v]
                  /\ rtc_time.day <= number_of_days(rtc_time.year, rtc_time.month)
            /\ set_date = rtc_time
       ELSE /\ alarm_enabled = TRUE
            /\ rtc_alarm_on = TRUE
            /\ sleep_mode_count = 1
            /\ \E v \in FieldStarts(current_mode) :
                  alarmtime = [InitialAlarmtime EXCEPT ![FieldName(current_mode)] = v]
            /\ rtc_alarm = alarmtime
            /\ alarm_settime = alarmtime
            /\ set_date = ZeroDatetime
            /\ rtc_time = InitialDate

NextCycle ==
    \/ \E b \in {LEFT_BUTTON, RIGHT_BUTTON} : CleanPress(b)
    \/ \E b \in {LEFT_BUTTON, RIGHT_BUTTON} : CleanRelease(b)
    \/ Poll
    \/ SetClockYear
    \/ SetClockMonth
    \/ SetClockDay
    \/ SetClockWeekday
    \/ SetClockHour
    \/ SetClockMin
    \/ SetClockSec
    \/ SetAlarmHour
    \/ SetAlarmMin
    \/ SetAlarmSec

SpecCycle == InitCycle /\ [][NextCycle]_vars

(* ------------------------------------------------------------------ *)
(* MENU, ALARM_MENU, DISABLE_ALARM, CLOCK and SLEEP_MODE from start-up  *)
(* ------------------------------------------------------------------ *)
\* The state main and core1_main start from.
InitToggle ==
    /\ InitCommon
    /\ AlarmOff
    /\ AtMenu
    /\ set_date = ZeroDatetime
    /\ rtc_time = InitialDate

NextToggle ==
    \/ \E b \in Buttons : Press(b)
    \/ \E b \in Buttons : Release(b)
    \/ Poll
    \/ Menu
    \/ Menu_l221
    \/ Menu_l226
    \/ AlarmMenu
    \/ AlarmMenu_l376
    \/ AlarmMenu_l377
    \/ AlarmMenu_l381
    \/ AlarmMenu_l383
    \/ Final
    \/ Clock
    \/ Clock_l186
    \/ Clock_l190
    \/ SleepMode
    \/ SleepMode_l201
    \/ alarm_callback
    \/ alarm_callback_l145(BuzzesLeft)
    \/ alarm_callback_l146(BuzzesLeft)
    \/ alarm_callback_l149
    \/ alarm_callback_l150
    \/ alarm_callback_l151

SpecToggle == InitToggle /\ [][NextToggle]_vars

(* ------------------------------------------------------------------ *)
(* SET_CLOCK_FINAL, SET_ALARM_FINAL and DISABLE_ALARM                   *)
(* ------------------------------------------------------------------ *)
\* A final mode just entered, for the first time since start-up and with
\* nothing edited on the way: DISABLE_ALARM after the alarm was enabled from
\* ALARM_MENU, SET_ALARM_FINAL after the alarm wizard committed 08:00:00,
\* SET_CLOCK_FINAL after the clock wizard committed the date-time it had read.
InitFinal ==
    /\ alarm_fired = FALSE
    /\ alarm_count = 0
    /\ sleep_mode_count = 0
    /\ button = [b \in Buttons |-> FALSE]
    /\ cb = "idle"
    /\ now = 0
    /\ lefts = 0
    /\ rights = 0
    /\ Core0Idle
    /\ menu_index = 0
    /\ pc = "poll"
    /\ rtc_time = InitialDate
    /\ \/ /\ current_mode = DISABLE_ALARM
          /\ datetime_set = FALSE
          /\ AlarmArmed
          /\ set_date = ZeroDatetime
       \/ /\ current_mode = SET_ALARM_FINAL
          /\ datetime_set = FALSE
          /\ alarm_enabled = TRUE
          /\ alarmtime = InitialAlarmtime
          /\ alarm_settime = InitialAlarmtime
          /\ rtc_alarm = InitialAlarmtime
          /\ rtc_alarm_on = TRUE
          /\ set_date = ZeroDatetime
       \/ /\ current_mode = SET_CLOCK_FINAL
          /\ datetime_set = TRUE
          /\ AlarmOff
          /\ set_date = rtc_time

NextFinal ==
    \/ \E b \in Buttons : Press(b)
    \/ \E b \in Buttons : Release(b)
    \/ Poll
    \/ Final
    \/ alarm_callback
    \/ alarm_callback_l145(BuzzesLeft)
    \/ alarm_callback_l146(BuzzesLeft)
    \/ alarm_callback_l149
    \/ alarm_callback_l150
    \/ alarm_callback_l151

SpecFinal == InitFinal /\ [][NextFinal]_vars

(* ------------------------------------------------------------------ *)
(* One wizard field, Left and Right pressed in any way                 *)
(* ------------------------------------------------------------------ *)
\* A user slower than the loop.  No button moves while the loop stands in
\* a wait for a release that has come (the wait, a tight loop, ends first),
\* and no press is shorter than a quantum: a button is let go only once the
\* loop has left the top of its iteration, where it tests the buttons.
\* Presses may overlap and may come while the loop waits for another release.
WaitOver == pc \in Buttons /\ ~button[pc]

SlowPress(b) ==
    /\ ~WaitOver
    /\ Press(b)

SlowRelease(b) ==
    /\ ~WaitOver
    /\ pc # "poll"
    /\ Release(b)

NextPress ==
    \/ \E b \in {LEFT_BUTTON, RIGHT_BUTTON} : SlowPress(b)
    \/ \E b \in {LEFT_BUTTON, RIGHT_BUTTON} : SlowRelease(b)
    \/ Poll
    \/ SetClockYear
    \/ SetClockMonth
    \/ SetClockDay
    \/ SetClockWeekday
    \/ SetClockHour
    \/ SetClockMin
    \/ SetClockSec
    \/ SetAlarmHour
    \/ SetAlarmMin
    \/ SetAlarmSec

SpecPress == InitCycle /\ [][NextPress]_vars

(* ------------------------------------------------------------------ *)
(* The commit of the clock wizard, the RTC taking the draft or not     *)
(* ------------------------------------------------------------------ *)
\* SET_CLOCK_SEC with a draft the RTC takes (the start-up date-time, read
\* on line 221) or one it refuses (all fields zero: no month, no day).  The
\* wizard lets no such draft arise in a run from start-up; the branch is
\* given one to see what lines 352-353 do with a refusal.
InitCommit ==
    /\ InitCommon
    /\ AlarmOff
    /\ current_mode = SET_CLOCK_SEC
    /\ menu_index = 0
    /\ pc = "poll"
    /\ rtc_time = InitialDate
    /\ set_date \in {InitialDate, ZeroDatetime}

NextCommit ==
    \/ \E b \in Buttons : Press(b)
    \/ \E b \in Buttons : Release(b)
    \/ Poll
    \/ SetClockSec
    \/ SetClockSec_l353
    \/ Final

SpecCommit == InitCommit /\ [][NextCommit]_vars

(* ------------------------------------------------------------------ *)
(* The calendar utility on every year and month                        *)
(* ------------------------------------------------------------------ *)
\* SET_CLOCK_MONTH with Select just released, the day at 31 (a draft seeded
\* on the 31st) and the year and month the user has dialled: the branch
\* computes number_of_days(year, month) and clamps the day to it.
InitCal ==
    /\ InitCommon
    /\ AlarmOff
    /\ current_mode = SET_CLOCK_MONTH
    /\ menu_index = 0
    /\ pc = SELECT_BUTTON
    /\ rtc_time = DT(2024, 1, 31, 3, 23, 59, 59)
    /\ \E y \in 0..4095, m \in 1..12 :
          set_date = [rtc_time EXCEPT !.year = y, !.month = m]

NextCal ==
    \/ SetClockMonth
    \/ SetClockMonth_l261

SpecCal == InitCal /\ [][NextCal]_vars

\* The Gregorian day count, as the calendar defines it.
GregorianLeap(y) == y % 400 = 0 \/ (y % 4 = 0 /\ y % 100 # 0)

GregorianDays(y, m) ==
    IF m \in {1, 3, 5, 7, 8, 10, 12} THEN 31
    ELSE IF m \in {4, 6, 9, 11} THEN 30
    ELSE IF GregorianLeap(y) THEN 29 ELSE 28

\* C9: for every year in 0..4095 and month in 1..12, number_of_days(year,
\* month) is the Gregorian day count (31, 30, or 28/29 for February by the
\* 400/100/4 rule), and so is the day the Select branch of SET_CLOCK_MONTH
\* leaves in a draft that stood on the 31st.
C9_NumberOfDaysIsGregorian ==
    /\ set_date.year \in 0..4095 /\ set_date.month \in 1..12
    /\ number_of_days(set_date.year, set_date.month)
          = GregorianDays(set_date.year, set_date.month)
    /\ pc = "l261" => set_date.day = GregorianDays(set_date.year, set_date.month)

\* February 1900 has been clamped to 28 days.
C9_Witness ==
    /\ pc = "l261"
    /\ set_date.year = 1900 /\ set_date.month = 2 /\ set_date.day = 28

(* ------------------------------------------------------------------ *)
(* Claims about the clock-edit wizard                                  *)
(* ------------------------------------------------------------------ *)
\* The draft holds the date-time read from the RTC on entry (line 221 has run).
DraftSeeded == current_mode \in ClockFieldModes /\ pc # "l221"

DayFits(d) == d.day <= GregorianDays(d.year, d.month)

\* C6 as stated: in every state of the clock-edit wizard with a seeded draft,
\* day <= days_in_month(year, month), the day being clamped as soon as Left
\* or Right changes the month or the year.
C6_AsStated == DraftSeeded => DayFits(set_date)

\* C6 amended: the day is clamped by Select in SET_CLOCK_MONTH, on the way
\* into SET_CLOCK_DAY, and not when Left/Right change the month or the year:
\* day <= days_in_month holds in SET_CLOCK_DAY .. SET_CLOCK_SEC, and Left and
\* Right in SET_CLOCK_YEAR and SET_CLOCK_MONTH leave the day as it is.
C6_ClampOnSelect ==
    /\ [](current_mode \in SET_CLOCK_DAY..SET_CLOCK_SEC => DayFits(set_date))
    /\ [][ ( /\ current_mode \in {SET_CLOCK_YEAR, SET_CLOCK_MONTH}
             /\ pc \in {LEFT_BUTTON, RIGHT_BUTTON} )
           => set_date'.day = set_date.day ]_vars

\* The draft seeded on 31 January 2024 has reached SET_CLOCK_DAY as
\* 29 February: the clamp acted, and only at Select.
C6_Witness ==
    /\ current_mode = SET_CLOCK_DAY
    /\ set_date = DT(2024, 2, 29, 3, 23, 59, 59)

\* C7: in SET_CLOCK_DAY and every later field mode the draft has
\* 1 <= day <= days_in_month(year, month), whatever Left/Right/Select/Back
\* presses led there, and the date-time the commit hands to the RTC
\* (rtc_set_datetime at line 352) is accepted and has such a day.
C7_DayValidFromSetDay ==
    /\ current_mode \in SET_CLOCK_DAY..SET_CLOCK_SEC
         => set_date.day >= 1 /\ DayFits(set_date)
    /\ pc = "l353"
         => /\ datetime_set
            /\ rtc_time = set_date
            /\ rtc_time.day >= 1 /\ DayFits(rtc_time)

\* The draft seeded on 29 February 2024 is committed as 28 February 2025:
\* the year was changed to a non-leap year and the day followed.
C7_Witness ==
    /\ pc = "l353"
    /\ rtc_time.year = 2025 /\ rtc_time.month = 2 /\ rtc_time.day = 28

(* ------------------------------------------------------------------ *)
(* Claims about the wizard fields under Left and Right                 *)
(* ------------------------------------------------------------------ *)
\* The range the claim gives each field.
RangeLo(mode) == IF mode \in {SET_CLOCK_MONTH, SET_CLOCK_DAY} THEN 1 ELSE 0

RangeHi(mode) ==
    CASE mode = SET_CLOCK_YEAR -> 4095
      [] mode = SET_CLOCK_MONTH -> 12
      [] mode = SET_CLOCK_DAY -> GregorianDays(rtc_time.year, rtc_time.month)
      [] mode = SET_CLOCK_WEEKDAY -> 6
      [] mode \in {SET_CLOCK_HOUR, SET_ALARM_HOUR} -> 23
      [] mode \in {SET_CLOCK_MIN, SET_ALARM_MIN, SET_CLOCK_SEC, SET_ALARM_SEC} -> 59

\* Every press made has been handled.
Quiet == pc = "poll" /\ ~AnyPressed

\* C8: a wizard field never leaves its range; the other fields of the draft
\* and the mode stay as they are under Left and Right; and once the presses
\* are handled the field is its starting value moved round the range by
\* (Rights - Lefts), so that N Rights (N the size of the range), Left then
\* Right, and Right then Left all give back the starting value.
C8_FieldIsCyclic ==
    /\ [] LET m == current_mode
              f == FieldName(m)
              lo == RangeLo(m)
              n == RangeHi(m) - RangeLo(m) + 1
          IN  /\ Draft(m)[f] \in lo..RangeHi(m)
              /\ [Draft(m) EXCEPT ![f] = Seed(m)[f]] = Seed(m)
              /\ Quiet => Draft(m)[f] = lo + ((Seed(m)[f] - lo + rights - lefts) % n)
    /\ [][current_mode' = current_mode]_vars

\* The year has gone once round, 4096 Rights from 2022, and is 2022 again.
C8_Witness ==
    /\ Quiet
    /\ current_mode = SET_CLOCK_YEAR
    /\ rights = 4096 /\ lefts = 0
    /\ rtc_time.year = 2022 /\ set_date.year = 2022

(* ------------------------------------------------------------------ *)
(* Claims about the alarm-edit wizard                                  *)
(* ------------------------------------------------------------------ *)
\* C10: Select in SET_ALARM_SEC makes alarmtime the draft, installs that
\* alarmtime in the RTC, sets alarm_enabled whatever it was, and makes the
\* mode SET_ALARM_FINAL, which is entered in no other way.
C10_CommitInstallsDraft ==
    /\ [] /\ pc \in {"l439", "l440", "l441"}
               => current_mode = SET_ALARM_SEC /\ alarmtime = alarm_settime
          /\ pc \in {"l440", "l441"} => rtc_alarm = alarmtime /\ rtc_alarm_on
          /\ pc = "l441" => alarm_enabled
          /\ current_mode = SET_ALARM_FINAL
               => /\ alarmtime = alarm_settime
                  /\ rtc_alarm = alarmtime /\ rtc_alarm_on
                  /\ alarm_enabled
    /\ [][ /\ (pc = "l441" /\ pc' # "l441")
                => current_mode' = SET_ALARM_FINAL /\ pc' = "poll"
           /\ (current_mode' = SET_ALARM_FINAL /\ current_mode # SET_ALARM_FINAL)
                => pc = "l441"
           /\ (current_mode = SET_ALARM_SEC /\ pc = SELECT_BUTTON /\ pc' # pc)
                => pc' = "l439" /\ alarmtime' = alarm_settime ]_vars

\* 07:00:59 has been committed: the hour and the second edited with Left.
C10_Witness ==
    /\ current_mode = SET_ALARM_FINAL
    /\ alarmtime = DT(-1, -1, -1, -1, 7, 0, 59)
    /\ rtc_alarm = alarmtime
    /\ alarm_enabled

(* ------------------------------------------------------------------ *)
(* Claims about CLOCK and SLEEP_MODE                                   *)
(* ------------------------------------------------------------------ *)
\* C4: SLEEP_MODE is entered only from CLOCK and only by the count reaching
\* the threshold of 500; SLEEP_MODE is left only for CLOCK, after a button
\* was found pressed and with no button pressed any more, so that the press
\* that woke the clock is not seen by the CLOCK branch.
C4_SleepOnlyFromClockAndBack ==
    [][ /\ (current_mode' = SLEEP_MODE /\ current_mode # SLEEP_MODE)
             => /\ current_mode = CLOCK
                /\ Threshold = 500
                /\ sleep_mode_count + 1 = Threshold
                /\ sleep_mode_count' = 0
        /\ (current_mode = SLEEP_MODE /\ current_mode' # SLEEP_MODE)
             => /\ current_mode' = CLOCK
                /\ pc = "l201" /\ pc' = "poll"
                /\ ~AnyPressed' ]_vars

\* Asleep and woken by Back, which is still held.
C4_Witness ==
    /\ current_mode = SLEEP_MODE
    /\ pc = "l201"
    /\ gpio_get(BACK_BUTTON)
    /\ sleep_mode_count = 0

\* C5 as stated: Back in CLOCK resets the idle timer, which is zero at the
\* end of that quantum, i.e. whenever the loop is at its top outside CLOCK.
C5_AsStated ==
    (pc = "poll" /\ current_mode # CLOCK) => sleep_mode_count = 0

(* ------------------------------------------------------------------ *)
(* Claims about the alarm going off                                    *)
(* ------------------------------------------------------------------ *)
\* C1 as stated: alarm_fired does not stay true for longer than 60 seconds
\* from the start of alarm_callback, and the alarm is still enabled after it
\* is cleared.
C1_AsStated ==
    /\ alarm_fired => now <= End
    /\ cb \in {"l150", "l151"} => alarm_enabled

\* Every step core1_main and alarm_callback can take.
ControlStep ==
    \/ Poll
    \/ Menu \/ Menu_l221 \/ Menu_l226
    \/ SetClockYear \/ SetClockMonth \/ SetClockMonth_l261 \/ SetClockDay
    \/ SetClockWeekday \/ SetClockHour \/ SetClockMin \/ SetClockSec
    \/ SetClockSec_l353
    \/ Final
    \/ AlarmMenu \/ AlarmMenu_l376 \/ AlarmMenu_l377 \/ AlarmMenu_l381
    \/ AlarmMenu_l383
    \/ SetAlarmHour \/ SetAlarmMin \/ SetAlarmSec
    \/ SetAlarmSec_l439 \/ SetAlarmSec_l440 \/ SetAlarmSec_l441
    \/ Clock \/ Clock_l186 \/ Clock_l190
    \/ SleepMode \/ SleepMode_l201
    \/ alarm_callback_l145(1) \/ alarm_callback_l146(1)
    \/ alarm_callback_l149 \/ alarm_callback_l150 \/ alarm_callback_l151

\* Between two visits of the top of the loop.
MidIteration == ~(cb = "idle" /\ pc = "poll")

\* The two loops of alarm_callback that wait for the acknowledgement.
AckWait == cb \in {"l145", "l146"}

\* A wait for a button to be released, that button held.
HeldWait ==
    \/ cb = "idle" /\ pc \in Buttons /\ gpio_get(pc)
    \/ cb = "idle" /\ pc = "l201" /\ AnyPressed
    \/ cb = "l151" /\ gpio_get(SELECT_BUTTON)

\* C2 as stated: outside the SLEEP_MODE wait for a press (the top of the
\* loop) and the acknowledgement wait, the control loop always has a step to
\* take, whatever the buttons do.
C2_AsStated == (MidIteration /\ ~AckWait) => ENABLED ControlStep

\* C2 amended: the control loop is without a step, between two visits of the
\* top of its loop, only in a wait for the release of a button that is held
\* (the wait each branch starts with, the second loop of SLEEP_MODE, and
\* line 151 of alarm_callback after alarm_fired is cleared); such a wait
\* lasts as long as the button is held.  The acknowledgement wait always has
\* a step and is over within 60 seconds and one call of buzz.
C2_StallsOnlyOnHeldButton ==
    /\ (MidIteration /\ ~ENABLED ControlStep) => HeldWait
    /\ HeldWait => ~ENABLED ControlStep
    /\ AckWait => ENABLED ControlStep /\ now < End + BuzzTime

\* alarm_fired is cleared and alarm_callback waits at line 151, Select held.
C2_Witness ==
    /\ cb = "l151"
    /\ gpio_get(SELECT_BUTTON)
    /\ ~alarm_fired

\* C3: from a state in which alarm_fired is true no step changes the mode,
\* the menu cursor, the clock draft, the alarm draft, the stored alarm time,
\* alarm_enabled, the alarm installed in the RTC, or the place core1_main has
\* reached, whatever the buttons do.
C3_MenuSuspendedWhileFiring ==
    [][ alarm_fired =>
          UNCHANGED <<current_mode, menu_index, set_date, alarm_settime,
                      alarmtime, alarm_enabled, rtc_alarm, rtc_alarm_on, pc>> ]_vars

\* The alarm went off with ALARM_MENU about to run the branch of Select on
\* the first entry (disable the alarm), Select already released.
C3_Witness ==
    /\ alarm_fired
    /\ current_mode = ALARM_MENU
    /\ menu_index = 0
    /\ alarm_enabled
    /\ pc = SELECT_BUTTON
    /\ ~gpio_get(SELECT_BUTTON)

(* ------------------------------------------------------------------ *)
(* Claims about enabling and disabling the alarm                       *)
(* ------------------------------------------------------------------ *)
\* C11: the alarm is off at the start; Select on entry 0 of ALARM_MENU
\* removes the alarm from the RTC when it was enabled and installs alarmtime
\* when it was not, negates alarm_enabled, leaves alarmtime alone and makes
\* the mode DISABLE_ALARM; alarm_enabled changes in no other way here, so two
\* such Selects give back the value it had.
C11_ToggleFlipsArmed ==
    /\ ~alarm_enabled /\ ~rtc_alarm_on
    /\ [] ( pc = "l377" =>
              /\ current_mode = ALARM_MENU
              /\ alarm_enabled <=> rtc_alarm_on
              /\ alarm_enabled => rtc_alarm = alarmtime )
    /\ [][ /\ ( /\ current_mode = ALARM_MENU /\ menu_index = 0
                /\ pc = SELECT_BUTTON /\ pc' # pc )
                => /\ pc' = "l376"
                   /\ rtc_alarm_on' = ~alarm_enabled
                   /\ ~alarm_enabled => rtc_alarm' = alarmtime
           /\ (pc = "l376" /\ pc' # pc)
                => alarm_enabled' = ~alarm_enabled /\ pc' = "l377"
           /\ (pc = "l377" /\ pc' # pc)
                => current_mode' = DISABLE_ALARM
           /\ alarm_enabled' # alarm_enabled => pc = "l376"
           /\ alarmtime' = alarmtime ]_vars

\* The second Select on entry 0 has run: the alarm is off again, out of the
\* RTC's match, with alarmtime the time that had been installed.
C11_Witness ==
    /\ pc = "l377"
    /\ ~alarm_enabled /\ ~rtc_alarm_on
    /\ rtc_alarm = alarmtime

\* The alarm is enabled, with t the stored alarm time and the time the RTC
\* compares with.
ArmedWith(t) ==
    /\ alarm_enabled /\ rtc_alarm_on
    /\ rtc_alarm = t /\ alarmtime = t

\* C12: once an arming has run (the commit of the alarm wizard up to line
\* 440, or Select on entry 0 of ALARM_MENU with the alarm off) the alarm is
\* enabled with alarmtime installed in the RTC; and a commit made while the
\* alarm is enabled with the very time of the draft changes nothing of the
\* alarm state, step by step.
C12_ArmIsIdempotent ==
    /\ [] /\ (pc = "l441" \/ current_mode = SET_ALARM_FINAL) => ArmedWith(alarmtime)
          /\ (pc = "l377" /\ alarm_enabled) => ArmedWith(alarmtime)
    /\ [][ ( /\ current_mode = SET_ALARM_SEC
             /\ pc \in {SELECT_BUTTON, "l439", "l440"} /\ pc' # pc
             /\ ArmedWith(alarm_settime) )
           => UNCHANGED <<alarm_enabled, rtc_alarm, rtc_alarm_on, alarmtime>> ]_vars

\* The wizard was gone through with the alarm enabled at 08:00:00 and
\* nothing edited; the commit has run and the alarm is as it was.
C12_Witness ==
    /\ current_mode = SET_ALARM_FINAL
    /\ sleep_mode_count = 1
    /\ lefts = 0 /\ rights = 0
    /\ Core0Idle
    /\ ArmedWith(InitialAlarmtime)

(* ------------------------------------------------------------------ *)
(* Claims about the menu cursor                                        *)
(* ------------------------------------------------------------------ *)
\* C13 as stated: in every state menu_index is in 0..2 in MENU, in 0..1 in
\* ALARM_MENU and 0 in every other mode.
C13_AsStated ==
    /\ current_mode = MENU => menu_index \in 0..2
    /\ current_mode = ALARM_MENU => menu_index \in 0..1
    /\ current_mode \notin {MENU, ALARM_MENU} => menu_index = 0

(* ------------------------------------------------------------------ *)
(* Claims about the final modes                                        *)
(* ------------------------------------------------------------------ *)
\* C14: in SET_CLOCK_FINAL, SET_ALARM_FINAL and DISABLE_ALARM no branch is
\* ever taken for Left, Right or Back; no step changes the cursor, the
\* drafts, the stored alarm time, alarm_enabled, datetime_set, the idle
\* count or the RTC; and the mode changes only to CLOCK, by the branch of
\* Select once Select is released.
C14_FinalModesOnlySelect ==
    /\ [] (current_mode \in FinalModes => pc \in {"poll", SELECT_BUTTON})
    /\ [][ (current_mode \in FinalModes) =>
             /\ UNCHANGED <<menu_index, datetime_set, alarm_enabled, sleep_mode_count,
                            alarm_settime, set_date, alarmtime, rtc>>
             /\ current_mode' # current_mode
                  => /\ current_mode' = CLOCK
                     /\ pc = SELECT_BUTTON /\ ~gpio_get(SELECT_BUTTON) ]_vars

\* SET_CLOCK_FINAL has been left for CLOCK by Select, and Back and Left are
\* held down.
C14_Witness ==
    /\ current_mode = CLOCK
    /\ datetime_set /\ set_date = rtc_time
    /\ gpio_get(BACK_BUTTON) /\ gpio_get(LEFT_BUTTON)

(* ------------------------------------------------------------------ *)
(* Claims about MENU                                                   *)
(* ------------------------------------------------------------------ *)
\* C20: the program starts in MENU with the cursor on 0; the branch of
\* Select in MENU makes the mode CLOCK, SET_CLOCK_YEAR or ALARM_MENU for
\* cursor 0, 1 or 2, for cursor 1 then reads the draft from the RTC, and in
\* all three cases ends by putting the cursor on 0; nothing in MENU or in
\* that branch changes the RTC's date-time, alarmtime or alarm_enabled.
C20_MenuSelectDispatches ==
    /\ current_mode = MENU /\ menu_index = 0
    /\ [] ( pc = "l226" =>
              /\ current_mode \in {CLOCK, SET_CLOCK_YEAR, ALARM_MENU}
              /\ current_mode = SET_CLOCK_YEAR => set_date = rtc_time )
    /\ [][ /\ (current_mode = MENU /\ pc = SELECT_BUTTON /\ pc' # pc)
                => /\ menu_index = 0 => current_mode' = CLOCK /\ pc' = "l226"
                   /\ menu_index = 1 => current_mode' = SET_CLOCK_YEAR /\ pc' = "l221"
                   /\ menu_index = 2 => current_mode' = ALARM_MENU /\ pc' = "l226"
           /\ (pc = "l221" /\ pc' # pc)
                => set_date' = rtc_time /\ pc' = "l226"
           /\ (pc = "l226" /\ pc' # pc)
                => menu_index' = 0 /\ pc' = "poll" /\ current_mode' = current_mode
           /\ (current_mode = MENU \/ pc \in {"l221", "l226"})
                => UNCHANGED <<rtc_time, alarmtime, alarm_enabled>> ]_vars

\* Select on entry 1 has run to its end: SET_CLOCK_YEAR, the cursor on 0,
\* the draft the date-time of the RTC.
C20_Witness ==
    /\ current_mode = SET_CLOCK_YEAR
    /\ pc = "poll"
    /\ menu_index = 0
    /\ set_date = InitialDate /\ rtc_time = InitialDate

(* ------------------------------------------------------------------ *)
(* Claims about presses and actions                                    *)
(* ------------------------------------------------------------------ *)
\* The field shown, and the field moved k places round its range.
Field == Draft(current_mode)[FieldName(current_mode)]

Moved(v, k) ==
    LET lo == RangeLo(current_mode)
        n == RangeHi(current_mode) - lo + 1
    IN  lo + ((v - lo + k) % n)

\* C15 as stated: every press (none of them shorter than a quantum) causes
\* exactly one action, so that with all presses over the field is its
\* starting value moved by the Rights less the Lefts.
C15_AsStated ==
    Quiet => Field = Moved(Seed(current_mode)[FieldName(current_mode)], rights - lefts)

\* C15 amended: a press causes at most one action.  A field changes only in
\* the branch of Left or Right, entered because the button was found pressed
\* at the top of an iteration, and only once that button is released; the
\* branch moves the field one place and goes back to the top, so the button
\* must be found pressed again for another action.  A press that comes and
\* goes while the loop waits for the release of another button causes none:
\* the field is its starting value moved by some of the Rights less some of
\* the Lefts.
C15_AtMostOneActionPerPress ==
    /\ [] (\E l \in 0..lefts, r \in 0..rights :
              Field = Moved(Seed(current_mode)[FieldName(current_mode)], r - l))
    /\ [][ /\ Field' # Field
                => /\ pc \in {LEFT_BUTTON, RIGHT_BUTTON}
                   /\ ~gpio_get(pc)
                   /\ pc' = "poll"
           /\ (pc = RIGHT_BUTTON /\ pc' # pc) => Field' = Moved(Field, 1)
           /\ (pc = LEFT_BUTTON /\ pc' # pc) => Field' = Moved(Field, -1) ]_vars

\* Left was pressed and released while the loop waited for the release of
\* Right: of the two presses only Right has moved the year.
C15_Witness ==
    /\ Quiet
    /\ current_mode = SET_CLOCK_YEAR
    /\ lefts = 1 /\ rights = 1
    /\ rtc_time.year = 2022 /\ set_date.year = 2023

(* ------------------------------------------------------------------ *)
(* Claims about the commit of the clock wizard                         *)
(* ------------------------------------------------------------------ *)
\* C16: the branch of Select in SET_CLOCK_SEC hands the draft to the RTC
\* once, keeps the answer in datetime_set and makes the mode SET_CLOCK_FINAL
\* whatever the answer; a refusal leaves the RTC's date-time as it was;
\* nothing else sets the RTC or datetime_set (no second attempt); and from
\* SET_CLOCK_FINAL Select leads to CLOCK, after a refusal as well.
C16_CommitOnceEitherWay ==
    /\ [] /\ (current_mode = SET_CLOCK_FINAL /\ ~datetime_set)
               => rtc_time = InitialDate
          /\ (current_mode = SET_CLOCK_FINAL /\ pc = SELECT_BUTTON
                 /\ ~gpio_get(SELECT_BUTTON))
               => ENABLED Final
    /\ [][ /\ (current_mode = SET_CLOCK_SEC /\ pc = SELECT_BUTTON /\ pc' # pc)
                => /\ pc' = "l353"
                   /\ datetime_set' = valid_datetime(set_date)
                   /\ rtc_time' = (IF datetime_set' THEN set_date ELSE rtc_time)
           /\ (pc = "l353" /\ pc' # pc)
                => /\ current_mode' = SET_CLOCK_FINAL /\ pc' = "poll"
                   /\ UNCHANGED <<rtc_time, datetime_set>>
           /\ (rtc_time' # rtc_time \/ datetime_set' # datetime_set)
                => current_mode = SET_CLOCK_SEC /\ pc = SELECT_BUTTON
           /\ (current_mode = SET_CLOCK_FINAL /\ current_mode' # current_mode)
                => current_mode' = CLOCK ]_vars

\* The RTC refused the draft, and Select in SET_CLOCK_FINAL has led to CLOCK.
C16_Witness ==
    /\ current_mode = CLOCK
    /\ ~datetime_set
    /\ set_date.month = 0
    /\ rtc_time = InitialDate

(* ------------------------------------------------------------------ *)
(* main on core 0: the loop that draws the display (lines 479-601)     *)
(* ------------------------------------------------------------------ *)
\* 480-481: oled.clear(); if (alarm_fired) ... else the chain of else-ifs.
main_l481 ==
    /\ dpc = "l480"
    /\ dpc' = (IF alarm_fired THEN "l482" ELSE "l495")
    /\ UNCHANGED <<globals, rtc, button, pc, cb, now, user, acc, date, build>>

\* 482: if (alarm_count < 8) print the alarm message, else the blank frame.
main_l482 ==
    /\ dpc = "l482"
    /\ dpc' = (IF alarm_count < 8 THEN "l486" ELSE "l489")
    /\ UNCHANGED <<globals, rtc, button, pc, cb, now, user, acc, date, build>>

\* 483-486: the message is printed, then alarm_count++ loads the counter ...
main_l486 ==
    /\ dpc = "l486"
    /\ acc' = alarm_count
    /\ dpc' = "l486w"
    /\ UNCHANGED <<globals, rtc, button, pc, cb, now, user, date, build>>

\* ... and stores it, one more (uint8_t); the register is dead afterwards.
main_l486w ==
    /\ dpc = "l486w"
    /\ alarm_count' = (acc + 1) % 256
    /\ acc' = 0
    /\ dpc' = "l600"
    /\ UNCHANGED <<datetime_set, alarm_enabled, alarm_fired, current_mode, menu_index,
                   sleep_mode_count, alarm_settime, set_date, alarmtime,
                   rtc, button, pc, cb, now, user, date, build>>

\* 489-490: oled.show() of the cleared frame; busy_wait_ms(80).
main_l489 ==
    /\ dpc = "l489"
    /\ dpc' = "l491"
    /\ UNCHANGED <<globals, rtc, button, pc, cb, now, user, acc, date, build>>

\* A main that, with its counter, also clears the flag alarm_callback owns.
main_l491_clear ==
    /\ dpc = "l491"
    /\ alarm_count' = 0
    /\ alarm_fired' = FALSE
    /\ dpc' = "l480"
    /\ UNCHANGED <<datetime_set, alarm_enabled, current_mode, menu_index,
                   sleep_mode_count, alarm_settime, set_date, alarmtime,
                   rtc, button, pc, cb, now, user, acc, date, build>>

\* 491-492: alarm_count = 0; continue.
main_l491 ==
    /\ dpc = "l491"
    /\ alarm_count' = 0
    /\ dpc' = "l480"
    /\ UNCHANGED <<datetime_set, alarm_enabled, alarm_fired, current_mode, menu_index,
                   sleep_mode_count, alarm_settime, set_date, alarmtime,
                   rtc, button, pc, cb, now, user, acc, date, build>>

\* The else-ifs of lines 495-596 in their order; each reads current_mode anew.
ElseIfs == <<"l495", "l501", "l509", "l516", "l531", "l538", "l570", "l580", "l596">>

\* The condition of the else-if at line l, current_mode being m.
ElseIfHolds(l, m) ==
    CASE l = "l495" -> m = MENU
      [] l = "l501" -> m = ALARM_MENU
      [] l = "l509" -> m = DISABLE_ALARM
      [] l = "l516" -> m = CLOCK
      [] l = "l531" -> m = SLEEP_MODE
      [] l = "l538" -> SET_CLOCK_YEAR <= m /\ m <= SET_CLOCK_SEC
      [] l = "l570" -> m = SET_CLOCK_FINAL
      [] l = "l580" -> SET_ALARM_HOUR <= m /\ m <= SET_ALARM_SEC
      [] l = "l596" -> m = SET_ALARM_FINAL

\* Where the branch of the else-if at line l leads: CLOCK reads the RTC first,
\* SLEEP_MODE has its own oled.show() and wait, the field modes read
\* current_mode again and then the draft, the others only print into the
\* frame that line 600 shows.
ElseIfBody(l) ==
    CASE l = "l516" -> "l517"
      [] l = "l531" -> "l532"
      [] l = "l538" -> "l539"
      [] l = "l580" -> "l581"
      [] OTHER -> "l600"

\* One else-if: its branch is entered, or the next else-if is tried; after the
\* last one oled.show() of line 600 follows.
main_else_if ==
    /\ \E i \in 1..Len(ElseIfs) :
          /\ dpc = ElseIfs[i]
          /\ dpc' = (IF ElseIfHolds(ElseIfs[i], current_mode) THEN ElseIfBody(ElseIfs[i])
                     ELSE IF i < Len(ElseIfs) THEN ElseIfs[i + 1]
                     ELSE "l600")
    /\ UNCHANGED <<globals, rtc, button, pc, cb, now, user, acc, date, build>>

\* 517: rtc_get_datetime(&date); the RTC is running, the date is printed.
main_l517 ==
    /\ dpc = "l517"
    /\ date' = rtc_time
    /\ dpc' = "l600"
    /\ UNCHANGED <<globals, rtc, button, pc, cb, now, user, acc, build>>

\* 539-568: switch (current_mode): the field of set_date that the mode now
\* read names is printed, nothing if it is no SET_CLOCK_* mode any more.
main_l539 ==
    /\ dpc = "l539"
    /\ dpc' = "l600"
    /\ UNCHANGED <<globals, rtc, button, pc, cb, now, user, acc, date, build>>

\* 581-594: switch (current_mode): the field of alarm_settime is printed.
main_l581 ==
    /\ dpc = "l581"
    /\ dpc' = "l600"
    /\ UNCHANGED <<globals, rtc, button, pc, cb, now, user, acc, date, build>>

\* 532: oled.show() of the cleared frame.
main_l532 ==
    /\ dpc = "l532"
    /\ dpc' = "l533"
    /\ UNCHANGED <<globals, rtc, button, pc, cb, now, user, acc, date, build>>

\* The condition of the loop of line 533.
Waiting == current_mode = SLEEP_MODE /\ ~alarm_fired

\* 533-536: while (current_mode == SLEEP_MODE && !alarm_fired) { } continue;
\* as the build made it: reading in every iteration, reading once and then
\* staying in the body (line 534) for ever, or no loop at all.
main_l533 ==
    /\ dpc = "l533"
    /\ CASE build = "reload" -> ~Waiting /\ dpc' = "l480"
         [] build = "hoist"  -> dpc' = (IF Waiting THEN "l534" ELSE "l480")
         [] build = "elide"  -> dpc' = "l480"
    /\ UNCHANGED <<globals, rtc, button, pc, cb, now, user, acc, date, build>>

\* 600: oled.show() of the frame the branch has printed.
main_l600 ==
    /\ dpc = "l600"
    /\ dpc' = "l480"
    /\ UNCHANGED <<globals, rtc, button, pc, cb, now, user, acc, date, build>>

\* One step of main.
main ==
    \/ main_l481
    \/ main_l482
    \/ main_l486
    \/ main_l486w
    \/ main_l489
    \/ main_l491
    \/ main_else_if
    \/ main_l517
    \/ main_l532
    \/ main_l533
    \/ main_l539
    \/ main_l581
    \/ main_l600

(* ------------------------------------------------------------------ *)
(* main beside core1_main in MENU, CLOCK and SLEEP_MODE, the alarm     *)
(* going off                                                           *)
(* ------------------------------------------------------------------ *)
\* Both cores at the top of their loops, in any of the builds: the start-up
\* state, or MENU reached again with the alarm enabled.  Select, the only
\* button used, leads from MENU to CLOCK, wakes SLEEP_MODE and acknowledges
\* the alarm.
InitBlank ==
    /\ datetime_set = FALSE
    /\ alarm_fired = FALSE
    /\ alarm_count = 0
    /\ button = [b \in Buttons |-> FALSE]
    /\ cb = "idle"
    /\ now = 0
    /\ lefts = 0
    /\ rights = 0
    /\ dpc = "l480"
    /\ acc = 0
    /\ date = InitialDate
    /\ build \in Builds
    /\ set_date = ZeroDatetime
    /\ rtc_time = InitialDate
    /\ AtMenu
    /\ \/ AlarmOff /\ sleep_mode_count = 0
       \/ AlarmArmed /\ sleep_mode_count = 1

NextBlank ==
    \/ Press(SELECT_BUTTON)
    \/ Release(SELECT_BUTTON)
    \/ Poll
    \/ Menu
    \/ Menu_l226
    \/ Clock
    \/ SleepMode
    \/ SleepMode_l201
    \/ alarm_callback
    \/ alarm_callback_l145(BuzzesLeft)
    \/ alarm_callback_l146(BuzzesLeft)
    \/ alarm_callback_l149
    \/ alarm_callback_l150
    \/ alarm_callback_l151
    \/ main_l481
    \/ main_l482
    \/ main_l486
    \/ main_l486w
    \/ main_l489
    \/ main_l491
    \/ main_else_if
    \/ main_l517
    \/ main_l532
    \/ main_l533
    \/ main_l600

SpecBlank == InitBlank /\ [][NextBlank]_vars

\* C17: under every interleaving of main (core 0) with core1_main and
\* alarm_callback, no step of main changes current_mode, menu_index,
\* alarm_enabled, alarm_fired, set_date, alarm_settime or alarmtime.
C17_MainWritesNoControlField ==
    [][ (dpc' # dpc) =>
           UNCHANGED <<current_mode, menu_index, alarm_enabled, alarm_fired,
                       set_date, alarm_settime, alarmtime>> ]_vars

\* main has drawn the alarm message three times and counted them, the alarm
\* still going off, after core1_main has gone to sleep.
C17_Witness ==
    /\ dpc = "l600"
    /\ alarm_count = 3
    /\ alarm_fired
    /\ current_mode = SLEEP_MODE

(* ------------------------------------------------------------------ *)
(* main beside core1_main in CLOCK and SLEEP_MODE                      *)
(* ------------------------------------------------------------------ *)
\* CLOCK has been shown for one pass short of ten seconds with no button
\* pressed, the alarm enabled; main at the top of its loop, in any build.
InitSleep ==
    /\ datetime_set = FALSE
    /\ alarm_fired = FALSE
    /\ alarm_count = 0
    /\ sleep_mode_count = Threshold - 1
    /\ button = [b \in Buttons |-> FALSE]
    /\ cb = "idle"
    /\ now = 0
    /\ lefts = 0
    /\ rights = 0
    /\ dpc = "l480"
    /\ acc = 0
    /\ date = InitialDate
    /\ build \in Builds
    /\ set_date = ZeroDatetime
    /\ rtc_time = InitialDate
    /\ AlarmArmed
    /\ current_mode = CLOCK
    /\ menu_index = 0
    /\ pc = "poll"

NextSleep ==
    \/ Press(SELECT_BUTTON)
    \/ Release(SELECT_BUTTON)
    \/ Clock
    \/ SleepMode
    \/ SleepMode_l201
    \/ alarm_callback
    \/ alarm_callback_l145(BuzzesLeft)
    \/ alarm_callback_l146(BuzzesLeft)
    \/ alarm_callback_l149
    \/ alarm_callback_l150
    \/ alarm_callback_l151
    \/ main_l481
    \/ main_l482
    \/ main_l486
    \/ main_l486w
    \/ main_l489
    \/ main_l491
    \/ main_else_if
    \/ main_l517
    \/ main_l532
    \/ main_l533
    \/ main_l600

SpecSleep == InitSleep /\ [][NextSleep]_vars

\* Core 0 runs nothing but main, so main goes on whenever it can.
FairSleep ==
    /\ SpecSleep
    /\ WF_vars(main)

\* main is in the loop of lines 533-535.
InWait == dpc \in {"l533", "l534"}

\* main is about to call oled.show().
Renders == dpc \in {"l489", "l532", "l600"}

NextFlash ==
    \/ Press(SELECT_BUTTON)
    \/ Release(SELECT_BUTTON)
    \/ alarm_callback
    \/ alarm_callback_l145(BuzzesLeft)
    \/ alarm_callback_l146(BuzzesLeft)
    \/ alarm_callback_l149
    \/ alarm_callback_l150
    \/ alarm_callback_l151
    \/ main_l481
    \/ main_l482
    \/ main_l486
    \/ main_l486w
    \/ main_l489
    \/ main_l491
    \/ main_else_if
    \/ main_l600

SpecFlash == InitFiring /\ [][NextFlash]_vars

\* C19: whenever alarm_fired becomes true alarm_count is 0, however the
\* increment and the reset of main interleave with the reset of
\* alarm_callback, and alarm_count never exceeds 8.
C19_AsStated ==
    /\ [] (alarm_count <= 8)
    /\ [][ (~alarm_fired /\ alarm_fired') => alarm_count' = 0 ]_vars

(* ------------------------------------------------------------------ *)
(* The two wizards, forwards with Select and backwards with Back       *)
(* ------------------------------------------------------------------ *)
\* A wizard just entered from MENU or ALARM_MENU: the draft is the copy of
\* the RTC's date-time (line 221) or of alarmtime (line 381); the alarm is
\* off, or on as ALARM_MENU enables it.
InitBack ==
    /\ InitCommon
    /\ menu_index = 0
    /\ pc = "poll"
    /\ alarmtime = InitialAlarmtime
    /\ \/ /\ current_mode = SET_CLOCK_YEAR
          /\ rtc_time \in RtcSamples
          /\ set_date = rtc_time
          /\ alarm_settime = ZeroDatetime
       \/ /\ current_mode = SET_ALARM_HOUR
          /\ rtc_time = InitialDate
          /\ set_date = ZeroDatetime
          /\ alarm_settime = alarmtime
    /\ \/ alarm_enabled = FALSE /\ rtc_alarm_on = FALSE /\ rtc_alarm = ZeroDatetime
       \/ alarm_enabled = TRUE /\ rtc_alarm_on = TRUE /\ rtc_alarm = alarmtime

NextBack ==
    \/ \E b \in Buttons : Press(b)
    \/ \E b \in Buttons : Release(b)
    \/ Poll
    \/ SetClockYear
    \/ SetClockMonth
    \/ SetClockMonth_l261
    \/ SetClockDay
    \/ SetClockWeekday
    \/ SetClockHour
    \/ SetClockMin
    \/ SetClockSec
    \/ SetClockSec_l353
    \/ SetAlarmHour
    \/ SetAlarmMin
    \/ SetAlarmSec
    \/ SetAlarmSec_l439
    \/ SetAlarmSec_l440
    \/ SetAlarmSec_l441

SpecBack == InitBack /\ [][NextBack]_vars

\* The mode before a field mode, MENU before the first field of a wizard.
Preceding(mode) ==
    CASE mode = SET_CLOCK_YEAR -> MENU
      [] mode = SET_CLOCK_MONTH -> SET_CLOCK_YEAR
      [] mode = SET_CLOCK_DAY -> SET_CLOCK_MONTH
      [] mode = SET_CLOCK_WEEKDAY -> SET_CLOCK_DAY
      [] mode = SET_CLOCK_HOUR -> SET_CLOCK_WEEKDAY
      [] mode = SET_CLOCK_MIN -> SET_CLOCK_HOUR
      [] mode = SET_CLOCK_SEC -> SET_CLOCK_MIN
      [] mode = SET_ALARM_HOUR -> MENU
      [] mode = SET_ALARM_MIN -> SET_ALARM_HOUR
      [] mode = SET_ALARM_SEC -> SET_ALARM_MIN

\* C21: in both wizards the branch taken for Back sets current_mode to the
\* preceding field mode, MENU from SET_CLOCK_YEAR and SET_ALARM_HOUR, and
\* changes neither draft, nor the RTC's date-time, alarmtime, the alarm
\* installed in the RTC or alarm_enabled; within a wizard these four change
\* only in the Select branch of SET_CLOCK_SEC and SET_ALARM_SEC.
C21_BackStepsToPrecedingField ==
    [][ /\ (current_mode \in ClockFieldModes \cup AlarmFieldModes
              /\ pc = BACK_BUTTON /\ pc' # pc)
           => /\ current_mode' = Preceding(current_mode)
              /\ UNCHANGED <<set_date, alarm_settime, rtc, alarmtime, alarm_enabled>>
        /\ (current_mode \in ClockFieldModes \cup AlarmFieldModes
              /\ <<rtc, alarmtime, alarm_enabled>>' # <<rtc, alarmtime, alarm_enabled>>)
           => /\ current_mode \in {SET_CLOCK_SEC, SET_ALARM_SEC}
              /\ pc \in {SELECT_BUTTON, "l439", "l440"} ]_vars

\* The month was changed in SET_CLOCK_MONTH and Back has led to
\* SET_CLOCK_YEAR again: the draft keeps the change, the RTC its date-time.
C21_Witness ==
    /\ current_mode = SET_CLOCK_YEAR
    /\ pc = "poll"
    /\ set_date.month # rtc_time.month
    /\ rtc_time \in RtcSamples

(* ------------------------------------------------------------------ *)
(* main beside core1_main in MENU and ALARM_MENU: the wizards entered  *)
(* ------------------------------------------------------------------ *)
\* From the start-up state, with Right and Select: the cursor is moved and
\* an entry chosen, the alarm is enabled and goes off, and main draws
\* whatever current_mode it finds.  CLOCK and the first field of a wizard
\* are where this part ends.
NextEnter ==
    \/ \E b \in {RIGHT_BUTTON, SELECT_BUTTON} : Press(b)
    \/ \E b \in {RIGHT_BUTTON, SELECT_BUTTON} : Release(b)
    \/ Poll
    \/ Menu
    \/ Menu_l221
    \/ Menu_l226
    \/ AlarmMenu
    \/ AlarmMenu_l376
    \/ AlarmMenu_l377
    \/ AlarmMenu_l381
    \/ AlarmMenu_l383
    \/ Final
    \/ alarm_callback
    \/ alarm_callback_l145(BuzzesLeft)
    \/ alarm_callback_l146(BuzzesLeft)
    \/ alarm_callback_l149
    \/ alarm_callback_l150
    \/ alarm_callback_l151
    \/ main_l481
    \/ main_l482
    \/ main_l486
    \/ main_l486w
    \/ main_l489
    \/ main_l491
    \/ main_else_if
    \/ main_l517
    \/ main_l539
    \/ main_l581
    \/ main_l600

SpecEnter == InitToggle /\ [][NextEnter]_vars

\* current_mode = SET_CLOCK_YEAR has been assigned (line 220) and set_date
\* is not yet read from the RTC (line 221): it holds what it held before.
ClockDraftStale == pc = "l221" /\ set_date # rtc_time

\* current_mode = SET_ALARM_HOUR has been assigned (line 380) and
\* alarm_settime is not yet copied from alarmtime (line 381).
AlarmDraftStale == pc = "l381" /\ alarm_settime # alarmtime

\* C22: under every interleaving with main, whenever current_mode is a
\* SET_CLOCK_* field mode set_date has been read from the RTC and whenever
\* it is a SET_ALARM_* field mode alarm_settime has been copied from
\* alarmtime, and main never prints a field of a draft left over from
\* before the wizard was entered.
C22_AsStated ==
    /\ [] (current_mode \in ClockFieldModes => ~ClockDraftStale)
    /\ [] (current_mode \in AlarmFieldModes => ~AlarmDraftStale)
    /\ [][ (dpc = "l539" /\ dpc' # dpc) => ~ClockDraftStale ]_vars
    /\ [][ (dpc = "l581" /\ dpc' # dpc) => ~AlarmDraftStale ]_vars

(* ------------------------------------------------------------------ *)
(* alarm_fired and alarm_enabled                                       *)
(* ------------------------------------------------------------------ *)
\* C23: in every reachable state alarm_fired = true implies alarm_enabled =
\* true, also when the RTC interrupt arrives between rtc_set_alarm or
\* rtc_disable_alarm and the assignment to alarm_enabled (lines 373-376 and
\* 439-440).
C23_AsStated == alarm_fired => alarm_enabled

====
